---------------------------- MODULE Spec2Model ----------------------------
(***************************************************************************)
(* Brasspack-Visualizer: the UUID codec, the payload locator, the owner    *)
(* index builder, the backpack record normaliser, the container batch of   *)
(* visualizer.main with the image it renders and the file it saves, the    *)
(* count formatter, the bitmap font, the atlas lookup, the text scanner of  *)
(* the SNBT export, the header and label layout of the image, the render   *)
(* threads sharing the missing-id set and the worker pool of               *)
(* backpack_visualizer.main, as state machines translated from the Python  *)
(* code.                                                                   *)
(*                                                                         *)
(* Python values are modelled as records [k, n]:                           *)
(*   k = "int"     the integer n                                           *)
(*   k = "float"   the float n + 0.5 (n >= 0), which int() truncates to n  *)
(*   k = "numstr"  the decimal string of n, which int() parses to n        *)
(*   k = "badstr"  a non-numeric string: int() raises ValueError           *)
(*   k = "none"    None: falsy, int() raises TypeError                     *)
(* Text is a sequence of characters, each a one-character string; a        *)
(* character no string of the module can hold is written by its code       *)
(* point, "U+2000".                                                        *)
(***************************************************************************)
EXTENDS Integers, Sequences, FiniteSets, TLC

VARIABLES
    ints, uuid_result, uuid_pc,                           \* uuid_from_int_list
    doc, search_queue, layer, data_payload, locate_pc,    \* payload locator
    access_log, idx, log_pos, index_pc,                   \* build_owner_index_from_access_log
    contents_list, owner_log, bc_pos, yielded, parse_pc,  \* parse_all_backpacks record loop
    args, raw_containers, c_pos, items_to_process, rendered, main_pc, \* visualizer.main, container mode
    assets, exit_status, output_dir, files, saved, reports,           \* load_resources, save_img
    ATLAS_IMAGE, SLOT_IMAGE,                              \* the images load_resources keeps
    returning,                                            \* save_img calls about to return
    fc_count, fc_result, fc_pc,                           \* format_count
    ATLAS_MAP, item_id, coords, MISSING_IDS, atlas_pc,    \* get_texture_from_atlas
    font_files, chars, char_height, space_width, load_result,   \* BitmapFont.load
    text, renders, font_pc,                               \* BitmapFont.render
    scan_lines, scan_pos, collecting, brace_level, buffer_lines, blocks, scan_pc, \* scan_text_snbt_file
    lay_in, lay_out, layout_pc, BORDER_IMAGE,             \* generate_backpack_image, apply_9_slice
    threads, printed, failed, worker_pc,                  \* render threads looking up the atlas
    n_records, answer, sem_value, waiting, fetching, saving, finished, tr, gate_pc, \* backpack_visualizer.main
    woken,                                                \* permits release() handed to waiters
    match_ids                                             \* the ids save_img looks up for a record

codecVars  == <<ints, uuid_result, uuid_pc>>
locateVars == <<doc, search_queue, layer, data_payload, locate_pc>>
indexVars  == <<access_log, idx, log_pos, index_pc>>
parseVars  == <<contents_list, owner_log, bc_pos, yielded, parse_pc>>
mainVars   == <<args, raw_containers, c_pos, items_to_process, rendered, main_pc,
                assets, ATLAS_IMAGE, SLOT_IMAGE, exit_status, output_dir, files, saved,
                reports, returning>>
formatVars == <<fc_count, fc_result, fc_pc>>
atlasVars  == <<ATLAS_MAP, item_id, coords, MISSING_IDS, atlas_pc>>
fontVars   == <<font_files, chars, char_height, space_width, load_result,
                text, renders, font_pc>>
scanVars   == <<scan_lines, scan_pos, collecting, brace_level, buffer_lines, blocks, scan_pc>>
layoutVars == <<lay_in, lay_out, layout_pc, BORDER_IMAGE>>
workerVars == <<threads, printed, failed, worker_pc>>
gateVars   == <<n_records, answer, sem_value, waiting, fetching, saving, finished, tr, gate_pc,
                woken, match_ids>>
otherVars  == <<scanVars, layoutVars, workerVars, gateVars>>
renderVars == <<formatVars, atlasVars, fontVars, otherVars>>
vars == <<codecVars, locateVars, indexVars, parseVars, mainVars, renderVars>>

(***************************************************************************)
(* Bounds of the model.                                                    *)
(***************************************************************************)
MaxOffset == 1      \* sampled 32-bit integers lie within MaxOffset of 0 and of the limits
MaxListLen == 5     \* longest malformed uuid list

(***************************************************************************)
(* Python values.                                                          *)
(***************************************************************************)
PyNone == [k |-> "none", n |-> 0]
PyInt(v) == [k |-> "int", n |-> v]
PyFloat(v) == [k |-> "float", n |-> v]      \* the float v + 0.5, which int() truncates to v
NumStr(v) == [k |-> "numstr", n |-> v]
BadStr == [k |-> "badstr", n |-> 0]

\* the characters of the decimal digits, str(d) for d in 0..9
DecChars == <<"0", "1", "2", "3", "4", "5", "6", "7", "8", "9">>

\* bool(x) of a scalar: None, 0 and 0.0 are falsy; a non-empty string is truthy.
Truthy(e) ==
    CASE e.k = "none" -> FALSE
      [] e.k = "int" -> e.n # 0
      [] OTHER -> TRUE

\* int(x): [ok, v]; ok = FALSE stands for the ValueError / TypeError it raises.
int(e) ==
    IF e.k \in {"int", "float", "numstr"}
    THEN [ok |-> TRUE, v |-> e.n]
    ELSE [ok |-> FALSE, v |-> 0]

\* The values an argument of uuid_from_int_list can take: None, a list, a bare integer.
ArgNone == [k |-> "none", items |-> <<>>, n |-> 0]
ArgList(s) == [k |-> "list", items |-> s, n |-> 0]
ArgInt(v) == [k |-> "int", items |-> <<>>, n |-> v]

\* `not ints` is False
ArgTruthy(a) ==
    CASE a.k = "none" -> FALSE
      [] a.k = "list" -> Len(a.items) > 0
      [] OTHER -> a.n # 0

(***************************************************************************)
(* UUID codec: infiltrator.uuid_from_int_list.  Python integers are        *)
(* unbounded; the 64- and 128-bit intermediate values are kept as          *)
(* big-endian sequences of 4-bit digits.                                   *)
(***************************************************************************)
HexChars == <<"0", "1", "2", "3", "4", "5", "6", "7",
              "8", "9", "a", "b", "c", "d", "e", "f">>

Zeros(n) == [i \in 1..n |-> 0]

\* x & 0xFFFFFFFF for a signed 32-bit x (two's-complement wrap), as 8 hex digits.
MaskNoWrap(x) == [i \in 1..8 |-> ((IF x < 0 THEN 0 ELSE x) \div 16^(8 - i)) % 16]
Mask32(x) == [i \in 1..8 |-> (x \div 16^(8 - i)) % 16]

\* a << bits, bits a multiple of 4
ShiftLeft(a, bits) == a \o Zeros(bits \div 4)

OrDigit(p, q) ==
    LET bit(v, j) == (v \div 2^j) % 2
        either(j) == IF bit(p, j) = 1 \/ bit(q, j) = 1 THEN 2^j ELSE 0
    IN  either(0) + either(1) + either(2) + either(3)

\* a | b
BitOr(a, b) ==
    LET w == IF Len(a) > Len(b) THEN Len(a) ELSE Len(b)
        pa == Zeros(w - Len(a)) \o a
        pb == Zeros(w - Len(b)) \o b
    IN  [i \in 1..w |-> OrDigit(pa[i], pb[i])]

RECURSIVE StripZeros(_)
StripZeros(a) ==
    IF Len(a) > 1 /\ a[1] = 0 THEN StripZeros(Tail(a)) ELSE a

\* f"{v:032x}": lowercase hex, zero-padded on the left to at least 32 digits
Format032x(a) ==
    LET d == StripZeros(a)
        p == IF Len(d) < 32 THEN Zeros(32 - Len(d)) \o d ELSE d
    IN  [i \in 1..Len(p) |-> HexChars[p[i] + 1]]

\* hex32[a:b] with Python's 0-based half-open slice
Slice(s, a, b) == SubSeq(s, a + 1, b)

\* [int(x) for x in ints]: [ok, parts]; a bare integer is not iterable
RECURSIVE IntAll(_)
IntAll(s) ==
    IF s = <<>> THEN [ok |-> TRUE, parts |-> <<>>]
    ELSE LET h == int(Head(s))
             r == IntAll(Tail(s))
         IN  IF h.ok /\ r.ok
             THEN [ok |-> TRUE, parts |-> <<h.v>> \o r.parts]
             ELSE [ok |-> FALSE, parts |-> <<>>]

UuidNone == [tag |-> "none", s |-> <<>>]
UuidStr(s) == [tag |-> "str", s |-> s]

UuidFormat(p) ==
    LET parts == [i \in 1..4 |-> Mask32(p[i])]
        high == BitOr(ShiftLeft(parts[1], 32), parts[2])
        low == BitOr(ShiftLeft(parts[3], 32), parts[4])
        combined == BitOr(ShiftLeft(high, 64), low)
        hex32 == Format032x(combined)
    IN  Slice(hex32, 0, 8) \o <<"-">> \o Slice(hex32, 8, 12) \o <<"-">>
          \o Slice(hex32, 12, 16) \o <<"-">> \o Slice(hex32, 16, 20) \o <<"-">>
          \o Slice(hex32, 20, 32)

uuid_from_int_list(a) ==
    IF ~ArgTruthy(a) THEN UuidNone
    ELSE IF a.k # "list" THEN UuidNone          \* iterating a non-iterable raises inside the try
    ELSE LET conv == IntAll(a.items)
         IN  IF ~conv.ok THEN UuidNone           \* bare except
             ELSE IF Len(conv.parts) # 4 THEN UuidNone
             ELSE UuidStr(UuidFormat(conv.parts))


(***************************************************************************)
(* Inputs of the codec: four signed 32-bit integers near 0 and near both   *)
(* limits, and the malformed arguments (None, a bare integer, lists of any *)
(* length up to MaxListLen whose elements need not be integers).           *)
(***************************************************************************)
MaxInt32 == 2147483647
MinInt32 == -MaxInt32 - 1

Int32Samples(off) ==
    UNION {{MinInt32 + i, -1 - i, i, MaxInt32 - i} : i \in 0..off}
      \cup {2, 65536, -65536}

ElemSamples == {PyInt(1), PyInt(-1), PyFloat(1), NumStr(7), BadStr, PyNone}

SeqsUpTo(S, n) == UNION {[1..m -> S] : m \in 0..n}

\* four signed 32-bit integers
QuadInputs(off) ==
    {ArgList([i \in 1..4 |-> PyInt(q[i])]) : q \in [1..4 -> Int32Samples(off)]}

\* lists of any length up to len, of any elements
ListInputs(len) == {ArgList(s) : s \in SeqsUpTo(ElemSamples, len)}

CodecIdle == ints = ArgNone /\ uuid_result = UuidNone /\ uuid_pc = "idle"

CodecInit ==
    /\ \/ ints \in QuadInputs(MaxOffset)
       \/ ints \in ListInputs(MaxListLen)
       \/ ints \in {ArgNone, ArgInt(0), ArgInt(5)}
    /\ uuid_result = UuidNone
    /\ uuid_pc = "call"

\* one call of uuid_from_int_list
Encode ==
    /\ uuid_pc = "call"
    /\ uuid_result' = uuid_from_int_list(ints)
    /\ uuid_pc' = "done"
    /\ UNCHANGED <<ints, locateVars, indexVars, parseVars, mainVars, renderVars>>

(***************************************************************************)
(* Claims about the codec.                                                 *)
(***************************************************************************)
IsInt32Quad(a) ==
    /\ a.k = "list"
    /\ Len(a.items) = 4
    /\ \A i \in 1..4 : a.items[i].k = "int"

\* the unsigned 32-bit value of x as <<high 16 bits, low 16 bits>>
Unsigned32(x) ==
    IF x >= 0 THEN <<x \div 65536, x % 65536>>
    ELSE LET y == (x + MaxInt32) + 1
         IN  <<(y \div 65536) + 32768, y % 65536>>

HexVal(c) == CHOOSE v \in 0..15 : HexChars[v + 1] = c

Hex16(s) == ((HexVal(s[1]) * 16 + HexVal(s[2])) * 16 + HexVal(s[3])) * 16 + HexVal(s[4])

\* the g-th group of 8 hex digits of a canonical string, as <<high 16, low 16>>
Resplit(s, g) ==
    LET digits == SelectSeq(s, LAMBDA c : c # "-")
        grp == SubSeq(digits, (g - 1) * 8 + 1, g * 8)
    IN  <<Hex16(SubSeq(grp, 1, 4)), Hex16(SubSeq(grp, 5, 8))>>

HexCharSet == {HexChars[i] : i \in 1..16}

Canonical(s) ==
    /\ Len(s) = 36
    /\ \A i \in 1..36 : IF i \in {9, 14, 19, 24} THEN s[i] = "-" ELSE s[i] \in HexCharSet

ExampleUuid == <<"0", "0", "0", "0", "0", "0", "0", "0", "-", "0", "0", "0", "0", "-", "0", "0", "0", "1", "-", "0", "0", "0", "0", "-", "0", "0", "0", "0", "0", "0", "0", "0", "0", "0", "0", "2">>

WrapUuid == <<"f", "f", "f", "f", "f", "f", "f", "f", "-", "8", "0", "0", "0", "-", "0", "0", "0", "0", "-", "7", "f", "f", "f", "-", "f", "f", "f", "f", "0", "0", "0", "0", "0", "0", "0", "1">>

\* C1: for any 4 signed 32-bit integers the result is 32 lowercase hex digits
\* hyphenated 8-4-4-4-12 whose four 8-digit groups, in order, are the inputs
\* masked to 32 bits unsigned (so the first two form the high 64 bits and the
\* last two the low 64 bits); [0,1,0,2] gives 00000000-0000-0001-0000-000000000002.
C1_RoundTrip ==
    (uuid_pc = "done" /\ IsInt32Quad(ints)) =>
        /\ uuid_result.tag = "str"
        /\ Canonical(uuid_result.s)
        /\ \A g \in 1..4 : Resplit(uuid_result.s, g) = Unsigned32(ints.items[g].n)
        /\ (ints = ArgList(<<PyInt(0), PyInt(1), PyInt(0), PyInt(2)>>)
              => uuid_result.s = ExampleUuid)

\* negative and extreme inputs wrap: [-1, -2^31, 2^31-1, 1]
C1_Witness ==
    /\ uuid_pc = "done"
    /\ ints = ArgList(<<PyInt(-1), PyInt(MinInt32), PyInt(MaxInt32), PyInt(1)>>)
    /\ uuid_result = UuidStr(WrapUuid)

\* C2: every input that is not a sequence of exactly 4 integers gives None
\* (and no exception): absent, empty, another length, or a non-integer element.
C2_InvalidForNonIntegers ==
    (uuid_pc = "done" /\ ~IsInt32Quad(ints)) => uuid_result = UuidNone


(***************************************************************************)
(* Payload locator: the search loop shared by data_parser.parse_all_       *)
(* backpacks, backpack_visualizer.parse_all_backpacks and infiltrator.     *)
(* search_binary_nbt.                                                      *)
(*                                                                         *)
(* A document is the sequence of its nodes in preorder; a node records its *)
(* parent, the key it is stored under and whether it is a mapping (has     *)
(* .get and .keys).  A mapping's keys, in insertion order, are its         *)
(* children in increasing node number.  Node 1 is the root.                *)
(***************************************************************************)
MaxNodes == 6       \* nodes of a document, the root included
SearchLayers == 3   \* for _ in range(3)

BC == "backpackContents"
WrapperKeys == {"data", "a"}

RootNode == [parent |-> 0, key |-> "root", map |-> TRUE]

ChildSet(d, p) == {c \in 1..Len(d) : d[c].parent = p}

Has(d, p, k) == \E c \in ChildSet(d, p) : d[c].key = k

Child(d, p, k) == CHOOSE c \in ChildSet(d, p) : d[c].key = k

RECURSIVE Ancestors(_, _)
Ancestors(d, n) == IF n = 0 THEN {} ELSE {n} \cup Ancestors(d, d[n].parent)

\* the key/value pairs that can be inserted after the last node of d
NewNodes(d) ==
    {nd \in [parent : Ancestors(d, Len(d)), key : WrapperKeys \cup {BC}, map : BOOLEAN] :
        /\ d[nd.parent].map
        /\ ~Has(d, nd.parent, nd.key)
        /\ (nd.key = BC => ~nd.map)        \* backpackContents holds a list
        /\ (nd.key = "a" => nd.map)}

\* the documents one more key/value pair makes from d
Grow(d) == {Append(d, nd) : nd \in NewNodes(d)}

RECURSIVE DocsOfSize(_)
DocsOfSize(n) ==
    IF n = 1 THEN {<<RootNode>>} ELSE UNION {Grow(d) : d \in DocsOfSize(n - 1)}

\* every document of at most m nodes
Documents(m) == UNION {DocsOfSize(n) : n \in 1..m}

\* node.keys() other than 'data', in insertion order
RECURSIVE OtherKeys(_, _, _)
OtherKeys(d, p, c) ==
    IF c > Len(d) THEN <<>>
    ELSE (IF d[c].parent = p /\ d[c].key # "data" THEN <<c>> ELSE <<>>)
           \o OtherKeys(d, p, c + 1)

\* (a variant that follows only the 'data' key and enqueues no other key)
RECURSIVE ScanLayerDataOnly(_, _, _, _)
ScanLayerDataOnly(d, queue, i, next) ==
    IF i > Len(queue) THEN [payload |-> 0, next |-> next]
    ELSE LET node == queue[i]
         IN  IF ~d[node].map THEN ScanLayerDataOnly(d, queue, i + 1, next)
             ELSE IF Has(d, node, BC) THEN [payload |-> node, next |-> next]
             ELSE LET hasData == Has(d, node, "data")
                      dn == Child(d, node, "data")
                  IN  IF hasData /\ d[dn].map /\ Has(d, dn, BC)
                      THEN [payload |-> dn, next |-> next]
                      ELSE ScanLayerDataOnly(d, queue, i + 1,
                                     next \o (IF hasData THEN <<dn>> ELSE <<>>))

\* the inner loop `for node, desc in search_queue` of one layer, from queue
\* position i: the payload it breaks on (0: none) and the next layer built so far
RECURSIVE ScanLayer(_, _, _, _)
ScanLayer(d, queue, i, next) ==
    IF i > Len(queue) THEN [payload |-> 0, next |-> next]
    ELSE LET node == queue[i]
         IN  IF ~d[node].map THEN ScanLayer(d, queue, i + 1, next)
             ELSE IF Has(d, node, BC) THEN [payload |-> node, next |-> next]
             ELSE LET hasData == Has(d, node, "data")
                      dn == Child(d, node, "data")
                  IN  IF hasData /\ d[dn].map /\ Has(d, dn, BC)
                      THEN [payload |-> dn, next |-> next]
                      ELSE ScanLayer(d, queue, i + 1,
                                     next \o (IF hasData THEN <<dn>> ELSE <<>>)
                                          \o OtherKeys(d, node, 1))

\* bool(data_payload): None and an empty mapping are falsy
PayloadTruthy(d, p) == p # 0 /\ ChildSet(d, p) # {}

LocateIdle ==
    /\ doc = <<RootNode>> /\ search_queue = <<>> /\ layer = 0
    /\ data_payload = 0 /\ locate_pc = "idle"

\* data_payload = None; search_queue = [(doc, "root")]
LocateInit ==
    /\ doc \in Documents(MaxNodes)
    /\ search_queue = <<1>>
    /\ layer = 0
    /\ data_payload = 0
    /\ locate_pc = "search"

\* (a variant whose loop runs one layer more)
SearchLayerExtra ==
    /\ locate_pc = "search"
    /\ layer < SearchLayers + 1
    /\ LET r == ScanLayer(doc, search_queue, 1, <<>>)
       IN  /\ data_payload' = r.payload
           /\ layer' = layer + 1
           /\ IF PayloadTruthy(doc, r.payload)
              THEN /\ locate_pc' = "checked"
                   /\ UNCHANGED search_queue
              ELSE /\ search_queue' = r.next
                   /\ locate_pc' = IF layer + 1 = SearchLayers + 1 THEN "checked" ELSE "search"
    /\ UNCHANGED <<doc, codecVars, indexVars, parseVars, mainVars, renderVars>>

\* one iteration of `for _ in range(3)`
SearchLayer ==
    /\ locate_pc = "search"
    /\ layer < SearchLayers
    /\ LET r == ScanLayer(doc, search_queue, 1, <<>>)
       IN  /\ data_payload' = r.payload
           /\ layer' = layer + 1
           /\ IF PayloadTruthy(doc, r.payload)
              THEN /\ locate_pc' = "checked"                 \* if data_payload: break
                   /\ UNCHANGED search_queue
              ELSE /\ search_queue' = r.next
                   /\ locate_pc' = IF layer + 1 = SearchLayers THEN "checked" ELSE "search"
    /\ UNCHANGED <<doc, codecVars, indexVars, parseVars, mainVars, renderVars>>

\* if not data_payload: print(...could not locate...); return
ReportNotFound ==
    /\ locate_pc = "checked"
    /\ ~PayloadTruthy(doc, data_payload)
    /\ locate_pc' = "notfound"
    /\ UNCHANGED <<doc, search_queue, layer, data_payload,
                   codecVars, indexVars, parseVars, mainVars, renderVars>>

\* the payload's accessLogRecords and backpackContents are read
UsePayload ==
    /\ locate_pc = "checked"
    /\ PayloadTruthy(doc, data_payload)
    /\ locate_pc' = "found"
    /\ UNCHANGED <<doc, search_queue, layer, data_payload,
                   codecVars, indexVars, parseVars, mainVars, renderVars>>


(***************************************************************************)
(* Claims about the payload locator.                                       *)
(***************************************************************************)
LocateStep == SearchLayer \/ ReportNotFound \/ UsePayload

\* the mappings that contain the key 'backpackContents'
PayloadNodes(d) == {p \in 1..Len(d) : d[p].map /\ Has(d, p, BC)}

\* nesting levels between the root and node p
Depth(d, p) == Cardinality(Ancestors(d, p)) - 1

LocateOver == locate_pc \in {"checked", "found", "notfound"}

\* C3: when a mapping containing 'backpackContents' lies at most 2 nesting
\* levels below the root, whatever the wrapper keys are called, the search ends
\* within 3 layers and returns a node that contains 'backpackContents'.
C3_FoundWithinTwoLevels ==
    /\ layer <= 3
    /\ (LocateOver /\ \E p \in PayloadNodes(doc) : Depth(doc, p) <= 2) =>
          /\ data_payload \in PayloadNodes(doc)
          /\ locate_pc # "notfound"

\* a payload two levels down, under wrappers not called 'data', found in layer 3
C3_Witness ==
    /\ locate_pc = "found"
    /\ layer = 3
    /\ Depth(doc, data_payload) = 2
    /\ doc[data_payload].key = "a"
    /\ doc[doc[data_payload].parent].key = "a"

\* C4 as stated: when every mapping containing 'backpackContents' lies more
\* than 2 nesting levels below the root, the locator returns NotFound.
C4_NotFoundBeyondTwoLevels ==
    (LocateOver /\ \A p \in PayloadNodes(doc) : Depth(doc, p) > 2) =>
        /\ data_payload = 0
        /\ locate_pc # "found"

\* C4 amended: when every mapping containing 'backpackContents' lies more than
\* 3 levels below the root, or exactly 3 levels below it under a key other
\* than 'data', the locator returns NotFound: the file is reported, no record
\* is read from it and no further search layer runs.
C4_NotFoundBeyondLookahead ==
    (LocateOver /\ \A p \in PayloadNodes(doc) :
                      \/ Depth(doc, p) > 3
                      \/ Depth(doc, p) = 3 /\ doc[p].key # "data") =>
        /\ data_payload = 0
        /\ locate_pc # "found"
        /\ ~ENABLED SearchLayer
        /\ (locate_pc = "notfound" => ~ENABLED LocateStep)

\* a payload exactly 3 levels down under a key other than 'data' is not found
C4_Witness ==
    /\ locate_pc = "notfound"
    /\ \E p \in PayloadNodes(doc) : Depth(doc, p) = 3 /\ doc[p].key = "a"

\* C28: when several mappings contain 'backpackContents', the payload the
\* locator returns is one of minimal depth: no mapping that contains
\* 'backpackContents' lies nearer to the root than the one returned.
C28_MinimalDepth ==
    (locate_pc = "found" /\ data_payload \in PayloadNodes(doc)) =>
        \A p \in PayloadNodes(doc) : Depth(doc, data_payload) <= Depth(doc, p)

(***************************************************************************)
(* Owner index: infiltrator.build_owner_index_from_access_log.             *)
(*                                                                         *)
(* An access-log entry carries the six fields the code reads; a field      *)
(* that is absent reads as None (safe_get's default).  A name is a string, *)
(* "" standing for an absent or empty name (both are falsy).               *)
(***************************************************************************)
MaxLogLen == 2      \* entries of an access log

U1 == <<PyInt(0), PyInt(0), PyInt(0), PyInt(1)>>
U2 == <<PyInt(0), PyInt(1), PyInt(0), PyInt(2)>>
Bad3 == <<PyInt(1), PyInt(2), PyInt(3)>>

\* x or y
ArgOr(x, y) == IF ArgTruthy(x) THEN x ELSE y
NameOr(x, y) == IF x # "" THEN x ELSE y
ValOr(x, y) == IF Truthy(x) THEN x ELSE y

\* d[k] = v on a dict kept as a function
Put(d, k, v) == [x \in DOMAIN d \cup {k} |-> IF x = k THEN v ELSE d[x]]

EmptyDict == <<>>

\* the body of the loop over the access log: try ... except Exception: continue
IndexOne(d, rec) ==
    LET uuid_str == uuid_from_int_list(ArgOr(rec.backpackUuid, rec.uuid))
        pname == NameOr(rec.playerName, rec.player)
        access_time == ValOr(rec.accessTime, rec.lastAccess)
    IN  IF uuid_str.tag # "str" THEN d                        \* if uuid_str: is false
        ELSE IF Truthy(access_time) /\ ~int(access_time).ok
             THEN d                                            \* int() raises: continue
        ELSE Put(d, uuid_str.s,
                 [playerName |-> pname,                        \* str(pname) if pname else ""
                  accessTime |-> IF Truthy(access_time)
                                 THEN PyInt(int(access_time).v) ELSE PyNone])

\* build_owner_index_from_access_log as a whole, from the dict built so far
RECURSIVE BuildIndex(_, _)
BuildIndex(d, log) ==
    IF log = <<>> THEN d ELSE BuildIndex(IndexOne(d, Head(log)), Tail(log))

build_owner_index_from_access_log(log) == BuildIndex(EmptyDict, log)

LogEntries ==
    [backpackUuid : {ArgNone, ArgList(U1), ArgList(Bad3)},
     uuid : {ArgNone, ArgList(U2)},
     playerName : {"", "A", "B"},
     player : {"C"},
     accessTime : {PyNone, PyInt(5), BadStr},
     lastAccess : {PyInt(7)}]

IndexInit ==
    /\ access_log \in SeqsUpTo(LogEntries, MaxLogLen)
    /\ idx = EmptyDict
    /\ log_pos = 0
    /\ index_pc = "loop"

\* one iteration of `for rec in iter_nbt_list(access_log)`
IndexEntry ==
    /\ index_pc = "loop"
    /\ log_pos < Len(access_log)
    /\ idx' = IndexOne(idx, access_log[log_pos + 1])
    /\ log_pos' = log_pos + 1
    /\ UNCHANGED <<access_log, index_pc, codecVars, locateVars, parseVars, mainVars, renderVars>>

\* return idx (at once when the log is empty)
IndexReturn ==
    /\ index_pc = "loop"
    /\ log_pos = Len(access_log)
    /\ index_pc' = "done"
    /\ UNCHANGED <<access_log, idx, log_pos, codecVars, locateVars, parseVars, mainVars, renderVars>>

(***************************************************************************)
(* Claims about the owner index.                                           *)
(***************************************************************************)
\* the uuid an access-log entry's uuid field decodes to
EntryUuid(rec) == uuid_from_int_list(ArgOr(rec.backpackUuid, rec.uuid))

\* C5: the index entry of a uuid u is the one built from the last access-log
\* entry whose uuid field decodes to u: the later entry's name is in the index.
C5_LastEntryWins ==
    index_pc = "done" =>
        \A i \in 1..Len(access_log) :
            LET u == EntryUuid(access_log[i])
            IN  (/\ u.tag = "str"
                 /\ \A j \in (i + 1)..Len(access_log) : EntryUuid(access_log[j]) # u) =>
                    /\ u.s \in DOMAIN idx
                    /\ idx[u.s].playerName
                         = NameOr(access_log[i].playerName, access_log[i].player)

\* the uuids the uuid fields of the entries of a log decode to
DecodedUuids(log) ==
    {EntryUuid(log[i]).s : i \in {j \in 1..Len(log) : EntryUuid(log[j]).tag = "str"}}

\* C29: the key set of the owner index equals the set of uuids decoded from
\* the access log: every entry whose uuid field decodes is in the index,
\* whatever its name and access-time fields hold.
C29_IndexKeysAreDecodedUuids ==
    index_pc = "done" => DOMAIN idx = DecodedUuids(access_log)

(***************************************************************************)
(* Record normaliser: the loop over backpackContents in                    *)
(* data_parser.parse_all_backpacks (backpack_visualizer.parse_all_         *)
(* backpacks is the same loop).                                            *)
(*                                                                         *)
(* A backpack entry carries its two uuid fields and the two item lists     *)
(* contents.inventory.Items and contents.upgradeInventory.Items (absent    *)
(* reads as the empty list).  An item carries id (text, <<>> when absent), *)
(* count and Slot (None when absent).                                      *)
(***************************************************************************)
MaxEntries == 2     \* entries of a backpackContents list
MaxItems == 2       \* items of one inventory

UpperCase == <<"A", "B", "C", "D", "E", "F", "G", "H", "I", "J", "K", "L", "M", "N", "O", "P", "Q", "R", "S", "T", "U", "V", "W", "X", "Y", "Z">>
LowerCase == <<"a", "b", "c", "d", "e", "f", "g", "h", "i", "j", "k", "l", "m", "n", "o", "p", "q", "r", "s", "t", "u", "v", "w", "x", "y", "z">>
\* the capitals beyond ASCII and their small letters, one to one
UpperUnicode ==
    <<
     "À", "Á", "Â", "Ã", "Ä", "Å", "Æ", "Ç", "È", "É", "Ê", "Ë", "Ì", "Í", "Î", "Ï", "Ð", "Ñ", "Ò",
     "Ó", "Ô", "Õ", "Ö", "Ø", "Ù", "Ú", "Û", "Ü", "Ý", "Þ", "U+0100", "U+0102", "U+0104", "U+0106",
     "U+0108", "U+010A", "U+010C", "U+010E", "U+0110", "U+0112", "U+0114", "U+0116", "U+0118",
     "U+011A", "U+011C", "U+011E", "U+0120", "U+0122", "U+0124", "U+0126", "U+0128", "U+012A",
     "U+012C", "U+012E", "U+0132", "U+0134", "U+0136", "U+0139", "U+013B", "U+013D", "U+013F",
     "U+0141", "U+0143", "U+0145", "U+0147", "U+014A", "U+014C", "U+014E", "U+0150", "U+0152",
     "U+0154", "U+0156", "U+0158", "U+015A", "U+015C", "U+015E", "U+0160", "U+0162", "U+0164",
     "U+0166", "U+0168", "U+016A", "U+016C", "U+016E", "U+0170", "U+0172", "U+0174", "U+0176",
     "U+0178", "U+0179", "U+017B", "U+017D", "Ɓ", "Ƃ", "Ƅ", "Ɔ", "Ƈ", "Ɖ", "Ɗ", "Ƌ", "Ǝ", "Ə", "Ɛ",
     "Ƒ", "Ɠ", "Ɣ", "Ɩ", "Ɨ", "Ƙ", "Ɯ", "Ɲ", "Ɵ", "Ơ", "Ƣ", "Ƥ", "Ʀ", "Ƨ", "Ʃ", "Ƭ", "Ʈ", "Ư", "Ʊ",
     "Ʋ", "Ƴ", "Ƶ", "Ʒ", "Ƹ", "Ƽ", "Ǆ", "ǅ", "Ǉ", "ǈ", "Ǌ", "ǋ", "Ǎ", "Ǐ", "Ǒ", "Ǔ", "Ǖ", "Ǘ", "Ǚ",
     "Ǜ", "Ǟ", "Ǡ", "Ǣ", "Ǥ", "Ǧ", "Ǩ", "Ǫ", "Ǭ", "Ǯ", "Ǳ", "ǲ", "Ǵ", "Ƕ", "Ƿ", "Ǹ", "Ǻ", "Ǽ", "Ǿ",
     "U+0200", "U+0202", "U+0204", "U+0206", "U+0208", "U+020A", "U+020C", "U+020E", "U+0210",
     "U+0212", "U+0214", "U+0216", "U+0218", "U+021A", "U+021C", "U+021E", "U+0220", "U+0222",
     "U+0224", "U+0226", "U+0228", "U+022A", "U+022C", "U+022E", "U+0230", "U+0232", "U+023A",
     "U+023B", "U+023D", "U+023E", "U+0241", "U+0243", "U+0244", "U+0245", "U+0246", "U+0248",
     "U+024A", "U+024C", "U+024E", "U+0370", "U+0372", "U+0376", "U+037F", "Ά", "Έ", "Ή", "Ί", "Ό",
     "Ύ", "Ώ", "Α", "Β", "Γ", "Δ", "Ε", "Ζ", "Η", "Θ", "Ι", "Κ", "Λ", "Μ", "Ν", "Ξ", "Ο", "Π", "Ρ",
     "Σ", "Τ", "Υ", "Φ", "Χ", "Ψ", "Ω", "Ϊ", "Ϋ", "Ϗ", "Ϙ", "Ϛ", "Ϝ", "Ϟ", "Ϡ", "Ϣ", "Ϥ", "Ϧ", "Ϩ",
     "Ϫ", "Ϭ", "Ϯ", "ϴ", "Ϸ", "Ϲ", "Ϻ", "Ͻ", "Ͼ", "Ͽ", "U+0400", "U+0401", "U+0402", "U+0403",
     "U+0404", "U+0405", "U+0406", "U+0407", "U+0408", "U+0409", "U+040A", "U+040B", "U+040C",
     "U+040D", "U+040E", "U+040F", "U+0410", "U+0411", "U+0412", "U+0413", "U+0414", "U+0415",
     "U+0416", "U+0417", "U+0418", "U+0419", "U+041A", "U+041B", "U+041C", "U+041D", "U+041E",
     "U+041F", "U+0420", "U+0421", "U+0422", "U+0423", "U+0424", "U+0425", "U+0426", "U+0427",
     "U+0428", "U+0429", "U+042A", "U+042B", "U+042C", "U+042D", "U+042E", "U+042F", "U+0460",
     "U+0462", "U+0464", "U+0466", "U+0468", "U+046A", "U+046C", "U+046E", "U+0470", "U+0472",
     "U+0474", "U+0476", "U+0478", "U+047A", "U+047C", "U+047E", "Ҁ", "Ҋ", "Ҍ", "Ҏ", "Ґ", "Ғ", "Ҕ",
     "Җ", "Ҙ", "Қ", "Ҝ", "Ҟ", "Ҡ", "Ң", "Ҥ", "Ҧ", "Ҩ", "Ҫ", "Ҭ", "Ү", "Ұ", "Ҳ", "Ҵ", "Ҷ", "Ҹ", "Һ",
     "Ҽ", "Ҿ", "Ӏ", "Ӂ", "Ӄ", "Ӆ", "Ӈ", "Ӊ", "Ӌ", "Ӎ", "Ӑ", "Ӓ", "Ӕ", "Ӗ", "Ә", "Ӛ", "Ӝ", "Ӟ", "Ӡ",
     "Ӣ", "Ӥ", "Ӧ", "Ө", "Ӫ", "Ӭ", "Ӯ", "Ӱ", "Ӳ", "Ӵ", "Ӷ", "Ӹ", "Ӻ", "Ӽ", "Ӿ", "U+0500", "U+0502",
     "U+0504", "U+0506", "U+0508", "U+050A", "U+050C", "U+050E", "U+0510", "U+0512", "U+0514",
     "U+0516", "U+0518", "U+051A", "U+051C", "U+051E", "U+0520", "U+0522", "U+0524", "U+0526",
     "U+0528", "U+052A", "U+052C", "U+052E", "U+0531", "U+0532", "U+0533", "U+0534", "U+0535",
     "U+0536", "U+0537", "U+0538", "U+0539", "U+053A", "U+053B", "U+053C", "U+053D", "U+053E",
     "U+053F", "U+0540", "U+0541", "U+0542", "U+0543", "U+0544", "U+0545", "U+0546", "U+0547",
     "U+0548", "U+0549", "U+054A", "U+054B", "U+054C", "U+054D", "U+054E", "U+054F", "U+0550",
     "U+0551", "U+0552", "U+0553", "U+0554", "U+0555", "U+0556", "Ⴀ", "Ⴁ", "Ⴂ", "Ⴃ", "Ⴄ", "Ⴅ", "Ⴆ",
     "Ⴇ", "Ⴈ", "Ⴉ", "Ⴊ", "Ⴋ", "Ⴌ", "Ⴍ", "Ⴎ", "Ⴏ", "Ⴐ", "Ⴑ", "Ⴒ", "Ⴓ", "Ⴔ", "Ⴕ", "Ⴖ", "Ⴗ", "Ⴘ", "Ⴙ",
     "Ⴚ", "Ⴛ", "Ⴜ", "Ⴝ", "Ⴞ", "Ⴟ", "Ⴠ", "Ⴡ", "Ⴢ", "Ⴣ", "Ⴤ", "Ⴥ", "Ⴧ", "Ⴭ", "Ꭰ", "Ꭱ", "Ꭲ", "Ꭳ", "Ꭴ",
     "Ꭵ", "Ꭶ", "Ꭷ", "Ꭸ", "Ꭹ", "Ꭺ", "Ꭻ", "Ꭼ", "Ꭽ", "Ꭾ", "Ꭿ", "Ꮀ", "Ꮁ", "Ꮂ", "Ꮃ", "Ꮄ", "Ꮅ", "Ꮆ", "Ꮇ",
     "Ꮈ", "Ꮉ", "Ꮊ", "Ꮋ", "Ꮌ", "Ꮍ", "Ꮎ", "Ꮏ", "Ꮐ", "Ꮑ", "Ꮒ", "Ꮓ", "Ꮔ", "Ꮕ", "Ꮖ", "Ꮗ", "Ꮘ", "Ꮙ", "Ꮚ",
     "Ꮛ", "Ꮜ", "Ꮝ", "Ꮞ", "Ꮟ", "Ꮠ", "Ꮡ", "Ꮢ", "Ꮣ", "Ꮤ", "Ꮥ", "Ꮦ", "Ꮧ", "Ꮨ", "Ꮩ", "Ꮪ", "Ꮫ", "Ꮬ", "Ꮭ",
     "Ꮮ", "Ꮯ", "Ꮰ", "Ꮱ", "Ꮲ", "Ꮳ", "Ꮴ", "Ꮵ", "Ꮶ", "Ꮷ", "Ꮸ", "Ꮹ", "Ꮺ", "Ꮻ", "Ꮼ", "Ꮽ", "Ꮾ", "Ꮿ", "Ᏸ",
     "Ᏹ", "Ᏺ", "Ᏻ", "Ᏼ", "Ᏽ", "Ა", "Ბ", "Გ", "Დ", "Ე", "Ვ", "Ზ", "Თ", "Ი", "Კ", "Ლ", "Მ", "Ნ", "Ო",
     "Პ", "Ჟ", "Რ", "Ს", "Ტ", "Უ", "Ფ", "Ქ", "Ღ", "Ყ", "Შ", "Ჩ", "Ც", "Ძ", "Წ", "Ჭ", "Ხ", "Ჯ", "Ჰ",
     "Ჱ", "Ჲ", "Ჳ", "Ჴ", "Ჵ", "Ჶ", "Ჷ", "Ჸ", "Ჹ", "Ჺ", "Ჽ", "Ჾ", "Ჿ", "U+1E00", "U+1E02", "U+1E04",
     "U+1E06", "U+1E08", "U+1E0A", "U+1E0C", "U+1E0E", "U+1E10", "U+1E12", "U+1E14", "U+1E16",
     "U+1E18", "U+1E1A", "U+1E1C", "U+1E1E", "U+1E20", "U+1E22", "U+1E24", "U+1E26", "U+1E28",
     "U+1E2A", "U+1E2C", "U+1E2E", "U+1E30", "U+1E32", "U+1E34", "U+1E36", "U+1E38", "U+1E3A",
     "U+1E3C", "U+1E3E", "U+1E40", "U+1E42", "U+1E44", "U+1E46", "U+1E48", "U+1E4A", "U+1E4C",
     "U+1E4E", "U+1E50", "U+1E52", "U+1E54", "U+1E56", "U+1E58", "U+1E5A", "U+1E5C", "U+1E5E",
     "U+1E60", "U+1E62", "U+1E64", "U+1E66", "U+1E68", "U+1E6A", "U+1E6C", "U+1E6E", "U+1E70",
     "U+1E72", "U+1E74", "U+1E76", "U+1E78", "U+1E7A", "U+1E7C", "U+1E7E", "Ẁ", "Ẃ", "Ẅ", "Ẇ", "Ẉ",
     "Ẋ", "Ẍ", "Ẏ", "Ẑ", "Ẓ", "Ẕ", "ẞ", "Ạ", "Ả", "Ấ", "Ầ", "Ẩ", "Ẫ", "Ậ", "Ắ", "Ằ", "Ẳ", "Ẵ", "Ặ",
     "Ẹ", "Ẻ", "Ẽ", "Ế", "Ề", "Ể", "Ễ", "Ệ", "Ỉ", "Ị", "Ọ", "Ỏ", "Ố", "Ồ", "Ổ", "Ỗ", "Ộ", "Ớ", "Ờ",
     "Ở", "Ỡ", "Ợ", "Ụ", "Ủ", "Ứ", "Ừ", "Ử", "Ữ", "Ự", "Ỳ", "Ỵ", "Ỷ", "Ỹ", "Ỻ", "Ỽ", "Ỿ", "U+1F08",
     "U+1F09", "U+1F0A", "U+1F0B", "U+1F0C", "U+1F0D", "U+1F0E", "U+1F0F", "U+1F18", "U+1F19",
     "U+1F1A", "U+1F1B", "U+1F1C", "U+1F1D", "U+1F28", "U+1F29", "U+1F2A", "U+1F2B", "U+1F2C",
     "U+1F2D", "U+1F2E", "U+1F2F", "U+1F38", "U+1F39", "U+1F3A", "U+1F3B", "U+1F3C", "U+1F3D",
     "U+1F3E", "U+1F3F", "U+1F48", "U+1F49", "U+1F4A", "U+1F4B", "U+1F4C", "U+1F4D", "U+1F59",
     "U+1F5B", "U+1F5D", "U+1F5F", "U+1F68", "U+1F69", "U+1F6A", "U+1F6B", "U+1F6C", "U+1F6D",
     "U+1F6E", "U+1F6F", "ᾈ", "ᾉ", "ᾊ", "ᾋ", "ᾌ", "ᾍ", "ᾎ", "ᾏ", "ᾘ", "ᾙ", "ᾚ", "ᾛ", "ᾜ", "ᾝ", "ᾞ",
     "ᾟ", "ᾨ", "ᾩ", "ᾪ", "ᾫ", "ᾬ", "ᾭ", "ᾮ", "ᾯ", "Ᾰ", "Ᾱ", "Ὰ", "Ά", "ᾼ", "Ὲ", "Έ", "Ὴ", "Ή", "ῌ",
     "Ῐ", "Ῑ", "Ὶ", "Ί", "Ῠ", "Ῡ", "Ὺ", "Ύ", "Ῥ", "Ὸ", "Ό", "Ὼ", "Ώ", "ῼ", "U+2126", "U+212A",
     "U+212B", "U+2132", "U+2160", "U+2161", "U+2162", "U+2163", "U+2164", "U+2165", "U+2166",
     "U+2167", "U+2168", "U+2169", "U+216A", "U+216B", "U+216C", "U+216D", "U+216E", "U+216F", "Ↄ",
     "Ⓐ", "Ⓑ", "Ⓒ", "Ⓓ", "Ⓔ", "Ⓕ", "Ⓖ", "Ⓗ", "Ⓘ", "Ⓙ", "Ⓚ", "Ⓛ", "Ⓜ", "Ⓝ", "Ⓞ", "Ⓟ", "Ⓠ", "Ⓡ", "Ⓢ",
     "Ⓣ", "Ⓤ", "Ⓥ", "Ⓦ", "Ⓧ", "Ⓨ", "Ⓩ", "U+2C00", "U+2C01", "U+2C02", "U+2C03", "U+2C04", "U+2C05",
     "U+2C06", "U+2C07", "U+2C08", "U+2C09", "U+2C0A", "U+2C0B", "U+2C0C", "U+2C0D", "U+2C0E",
     "U+2C0F", "U+2C10", "U+2C11", "U+2C12", "U+2C13", "U+2C14", "U+2C15", "U+2C16", "U+2C17",
     "U+2C18", "U+2C19", "U+2C1A", "U+2C1B", "U+2C1C", "U+2C1D", "U+2C1E", "U+2C1F", "U+2C20",
     "U+2C21", "U+2C22", "U+2C23", "U+2C24", "U+2C25", "U+2C26", "U+2C27", "U+2C28", "U+2C29",
     "U+2C2A", "U+2C2B", "U+2C2C", "U+2C2D", "U+2C2E", "U+2C2F", "U+2C60", "U+2C62", "U+2C63",
     "U+2C64", "U+2C67", "U+2C69", "U+2C6B", "U+2C6D", "U+2C6E", "U+2C6F", "U+2C70", "U+2C72",
     "U+2C75", "U+2C7E", "U+2C7F", "Ⲁ", "Ⲃ", "Ⲅ", "Ⲇ", "Ⲉ", "Ⲋ", "Ⲍ", "Ⲏ", "Ⲑ", "Ⲓ", "Ⲕ", "Ⲗ", "Ⲙ",
     "Ⲛ", "Ⲝ", "Ⲟ", "Ⲡ", "Ⲣ", "Ⲥ", "Ⲧ", "Ⲩ", "Ⲫ", "Ⲭ", "Ⲯ", "Ⲱ", "Ⲳ", "Ⲵ", "Ⲷ", "Ⲹ", "Ⲻ", "Ⲽ", "Ⲿ",
     "Ⳁ", "Ⳃ", "Ⳅ", "Ⳇ", "Ⳉ", "Ⳋ", "Ⳍ", "Ⳏ", "Ⳑ", "Ⳓ", "Ⳕ", "Ⳗ", "Ⳙ", "Ⳛ", "Ⳝ", "Ⳟ", "Ⳡ", "Ⳣ", "Ⳬ",
     "Ⳮ", "Ⳳ", "U+A640", "U+A642", "U+A644", "U+A646", "U+A648", "U+A64A", "U+A64C", "U+A64E",
     "U+A650", "U+A652", "U+A654", "U+A656", "U+A658", "U+A65A", "U+A65C", "U+A65E", "U+A660",
     "U+A662", "U+A664", "U+A666", "U+A668", "U+A66A", "U+A66C", "Ꚁ", "Ꚃ", "Ꚅ", "Ꚇ", "Ꚉ", "Ꚋ", "Ꚍ",
     "Ꚏ", "Ꚑ", "Ꚓ", "Ꚕ", "Ꚗ", "Ꚙ", "Ꚛ", "U+A722", "U+A724", "U+A726", "U+A728", "U+A72A", "U+A72C",
     "U+A72E", "U+A732", "U+A734", "U+A736", "U+A738", "U+A73A", "U+A73C", "U+A73E", "U+A740",
     "U+A742", "U+A744", "U+A746", "U+A748", "U+A74A", "U+A74C", "U+A74E", "U+A750", "U+A752",
     "U+A754", "U+A756", "U+A758", "U+A75A", "U+A75C", "U+A75E", "U+A760", "U+A762", "U+A764",
     "U+A766", "U+A768", "U+A76A", "U+A76C", "U+A76E", "U+A779", "U+A77B", "U+A77D", "U+A77E", "Ꞁ",
     "Ꞃ", "Ꞅ", "Ꞇ", "Ꞌ", "Ɥ", "Ꞑ", "Ꞓ", "Ꞗ", "Ꞙ", "Ꞛ", "Ꞝ", "Ꞟ", "Ꞡ", "Ꞣ", "Ꞥ", "Ꞧ", "Ꞩ", "Ɦ", "Ɜ",
     "Ɡ", "Ɬ", "Ɪ", "Ʞ", "Ʇ", "Ʝ", "Ꭓ", "Ꞵ", "Ꞷ", "Ꞹ", "Ꞻ", "Ꞽ", "Ꞿ", "Ꟁ", "Ꟃ", "Ꞔ", "Ʂ", "Ᶎ", "Ꟈ",
     "Ꟊ", "Ꟑ", "Ꟗ", "Ꟙ", "Ꟶ", "U+FF21", "U+FF22", "U+FF23", "U+FF24", "U+FF25", "U+FF26", "U+FF27",
     "U+FF28", "U+FF29", "U+FF2A", "U+FF2B", "U+FF2C", "U+FF2D", "U+FF2E", "U+FF2F", "U+FF30",
     "U+FF31", "U+FF32", "U+FF33", "U+FF34", "U+FF35", "U+FF36", "U+FF37", "U+FF38", "U+FF39",
     "U+FF3A", "U+10400", "U+10401", "U+10402", "U+10403", "U+10404", "U+10405", "U+10406",
     "U+10407", "U+10408", "U+10409", "U+1040A", "U+1040B", "U+1040C", "U+1040D", "U+1040E",
     "U+1040F", "U+10410", "U+10411", "U+10412", "U+10413", "U+10414", "U+10415", "U+10416",
     "U+10417", "U+10418", "U+10419", "U+1041A", "U+1041B", "U+1041C", "U+1041D", "U+1041E",
     "U+1041F", "U+10420", "U+10421", "U+10422", "U+10423", "U+10424", "U+10425", "U+10426",
     "U+10427", "U+104B0", "U+104B1", "U+104B2", "U+104B3", "U+104B4", "U+104B5", "U+104B6",
     "U+104B7", "U+104B8", "U+104B9", "U+104BA", "U+104BB", "U+104BC", "U+104BD", "U+104BE",
     "U+104BF", "U+104C0", "U+104C1", "U+104C2", "U+104C3", "U+104C4", "U+104C5", "U+104C6",
     "U+104C7", "U+104C8", "U+104C9", "U+104CA", "U+104CB", "U+104CC", "U+104CD", "U+104CE",
     "U+104CF", "U+104D0", "U+104D1", "U+104D2", "U+104D3", "U+10570", "U+10571", "U+10572",
     "U+10573", "U+10574", "U+10575", "U+10576", "U+10577", "U+10578", "U+10579", "U+1057A",
     "U+1057C", "U+1057D", "U+1057E", "U+1057F", "U+10580", "U+10581", "U+10582", "U+10583",
     "U+10584", "U+10585", "U+10586", "U+10587", "U+10588", "U+10589", "U+1058A", "U+1058C",
     "U+1058D", "U+1058E", "U+1058F", "U+10590", "U+10591", "U+10592", "U+10594", "U+10595",
     "U+10C80", "U+10C81", "U+10C82", "U+10C83", "U+10C84", "U+10C85", "U+10C86", "U+10C87",
     "U+10C88", "U+10C89", "U+10C8A", "U+10C8B", "U+10C8C", "U+10C8D", "U+10C8E", "U+10C8F",
     "U+10C90", "U+10C91", "U+10C92", "U+10C93", "U+10C94", "U+10C95", "U+10C96", "U+10C97",
     "U+10C98", "U+10C99", "U+10C9A", "U+10C9B", "U+10C9C", "U+10C9D", "U+10C9E", "U+10C9F",
     "U+10CA0", "U+10CA1", "U+10CA2", "U+10CA3", "U+10CA4", "U+10CA5", "U+10CA6", "U+10CA7",
     "U+10CA8", "U+10CA9", "U+10CAA", "U+10CAB", "U+10CAC", "U+10CAD", "U+10CAE", "U+10CAF",
     "U+10CB0", "U+10CB1", "U+10CB2", "U+118A0", "U+118A1", "U+118A2", "U+118A3", "U+118A4",
     "U+118A5", "U+118A6", "U+118A7", "U+118A8", "U+118A9", "U+118AA", "U+118AB", "U+118AC",
     "U+118AD", "U+118AE", "U+118AF", "U+118B0", "U+118B1", "U+118B2", "U+118B3", "U+118B4",
     "U+118B5", "U+118B6", "U+118B7", "U+118B8", "U+118B9", "U+118BA", "U+118BB", "U+118BC",
     "U+118BD", "U+118BE", "U+118BF", "U+16E40", "U+16E41", "U+16E42", "U+16E43", "U+16E44",
     "U+16E45", "U+16E46", "U+16E47", "U+16E48", "U+16E49", "U+16E4A", "U+16E4B", "U+16E4C",
     "U+16E4D", "U+16E4E", "U+16E4F", "U+16E50", "U+16E51", "U+16E52", "U+16E53", "U+16E54",
     "U+16E55", "U+16E56", "U+16E57", "U+16E58", "U+16E59", "U+16E5A", "U+16E5B", "U+16E5C",
     "U+16E5D", "U+16E5E", "U+16E5F", "U+1E900", "U+1E901", "U+1E902", "U+1E903", "U+1E904",
     "U+1E905", "U+1E906", "U+1E907", "U+1E908", "U+1E909", "U+1E90A", "U+1E90B", "U+1E90C",
     "U+1E90D", "U+1E90E", "U+1E90F", "U+1E910", "U+1E911", "U+1E912", "U+1E913", "U+1E914",
     "U+1E915", "U+1E916", "U+1E917", "U+1E918", "U+1E919", "U+1E91A", "U+1E91B", "U+1E91C",
     "U+1E91D", "U+1E91E", "U+1E91F", "U+1E920", "U+1E921"
    >>
LowerUnicode ==
    <<
     "à", "á", "â", "ã", "ä", "å", "æ", "ç", "è", "é", "ê", "ë", "ì", "í", "î", "ï", "ð", "ñ", "ò",
     "ó", "ô", "õ", "ö", "ø", "ù", "ú", "û", "ü", "ý", "þ", "U+0101", "U+0103", "U+0105", "U+0107",
     "U+0109", "U+010B", "U+010D", "U+010F", "U+0111", "U+0113", "U+0115", "U+0117", "U+0119",
     "U+011B", "U+011D", "U+011F", "U+0121", "U+0123", "U+0125", "U+0127", "U+0129", "U+012B",
     "U+012D", "U+012F", "U+0133", "U+0135", "U+0137", "U+013A", "U+013C", "U+013E", "U+0140",
     "U+0142", "U+0144", "U+0146", "U+0148", "U+014B", "U+014D", "U+014F", "U+0151", "U+0153",
     "U+0155", "U+0157", "U+0159", "U+015B", "U+015D", "U+015F", "U+0161", "U+0163", "U+0165",
     "U+0167", "U+0169", "U+016B", "U+016D", "U+016F", "U+0171", "U+0173", "U+0175", "U+0177", "ÿ",
     "U+017A", "U+017C", "U+017E", "U+0253", "ƃ", "ƅ", "U+0254", "ƈ", "U+0256", "U+0257", "ƌ", "ǝ",
     "U+0259", "U+025B", "ƒ", "U+0260", "U+0263", "U+0269", "U+0268", "ƙ", "U+026F", "U+0272",
     "U+0275", "ơ", "ƣ", "ƥ", "ʀ", "ƨ", "ʃ", "ƭ", "ʈ", "ư", "ʊ", "ʋ", "ƴ", "ƶ", "ʒ", "ƹ", "ƽ", "ǆ",
     "ǆ", "ǉ", "ǉ", "ǌ", "ǌ", "ǎ", "ǐ", "ǒ", "ǔ", "ǖ", "ǘ", "ǚ", "ǜ", "ǟ", "ǡ", "ǣ", "ǥ", "ǧ", "ǩ",
     "ǫ", "ǭ", "ǯ", "ǳ", "ǳ", "ǵ", "ƕ", "ƿ", "ǹ", "ǻ", "ǽ", "ǿ", "U+0201", "U+0203", "U+0205",
     "U+0207", "U+0209", "U+020B", "U+020D", "U+020F", "U+0211", "U+0213", "U+0215", "U+0217",
     "U+0219", "U+021B", "U+021D", "U+021F", "ƞ", "U+0223", "U+0225", "U+0227", "U+0229", "U+022B",
     "U+022D", "U+022F", "U+0231", "U+0233", "U+2C65", "U+023C", "ƚ", "U+2C66", "U+0242", "ƀ", "ʉ",
     "ʌ", "U+0247", "U+0249", "U+024B", "U+024D", "U+024F", "U+0371", "U+0373", "U+0377", "ϳ", "ά",
     "έ", "ή", "ί", "ό", "ύ", "ώ", "α", "β", "γ", "δ", "ε", "ζ", "η", "θ", "ι", "κ", "λ", "μ", "ν",
     "ξ", "ο", "π", "ρ", "σ", "τ", "υ", "φ", "χ", "ψ", "ω", "ϊ", "ϋ", "ϗ", "ϙ", "ϛ", "ϝ", "ϟ", "ϡ",
     "ϣ", "ϥ", "ϧ", "ϩ", "ϫ", "ϭ", "ϯ", "θ", "ϸ", "ϲ", "ϻ", "U+037B", "U+037C", "U+037D", "U+0450",
     "U+0451", "U+0452", "U+0453", "U+0454", "U+0455", "U+0456", "U+0457", "U+0458", "U+0459",
     "U+045A", "U+045B", "U+045C", "U+045D", "U+045E", "U+045F", "U+0430", "U+0431", "U+0432",
     "U+0433", "U+0434", "U+0435", "U+0436", "U+0437", "U+0438", "U+0439", "U+043A", "U+043B",
     "U+043C", "U+043D", "U+043E", "U+043F", "U+0440", "U+0441", "U+0442", "U+0443", "U+0444",
     "U+0445", "U+0446", "U+0447", "U+0448", "U+0449", "U+044A", "U+044B", "U+044C", "U+044D",
     "U+044E", "U+044F", "U+0461", "U+0463", "U+0465", "U+0467", "U+0469", "U+046B", "U+046D",
     "U+046F", "U+0471", "U+0473", "U+0475", "U+0477", "U+0479", "U+047B", "U+047D", "U+047F", "ҁ",
     "ҋ", "ҍ", "ҏ", "ґ", "ғ", "ҕ", "җ", "ҙ", "қ", "ҝ", "ҟ", "ҡ", "ң", "ҥ", "ҧ", "ҩ", "ҫ", "ҭ", "ү",
     "ұ", "ҳ", "ҵ", "ҷ", "ҹ", "һ", "ҽ", "ҿ", "ӏ", "ӂ", "ӄ", "ӆ", "ӈ", "ӊ", "ӌ", "ӎ", "ӑ", "ӓ", "ӕ",
     "ӗ", "ә", "ӛ", "ӝ", "ӟ", "ӡ", "ӣ", "ӥ", "ӧ", "ө", "ӫ", "ӭ", "ӯ", "ӱ", "ӳ", "ӵ", "ӷ", "ӹ", "ӻ",
     "ӽ", "ӿ", "U+0501", "U+0503", "U+0505", "U+0507", "U+0509", "U+050B", "U+050D", "U+050F",
     "U+0511", "U+0513", "U+0515", "U+0517", "U+0519", "U+051B", "U+051D", "U+051F", "U+0521",
     "U+0523", "U+0525", "U+0527", "U+0529", "U+052B", "U+052D", "U+052F", "U+0561", "U+0562",
     "U+0563", "U+0564", "U+0565", "U+0566", "U+0567", "U+0568", "U+0569", "U+056A", "U+056B",
     "U+056C", "U+056D", "U+056E", "U+056F", "U+0570", "U+0571", "U+0572", "U+0573", "U+0574",
     "U+0575", "U+0576", "U+0577", "U+0578", "U+0579", "U+057A", "U+057B", "U+057C", "U+057D",
     "U+057E", "U+057F", "ր", "ց", "ւ", "փ", "ք", "օ", "ֆ", "U+2D00", "U+2D01", "U+2D02", "U+2D03",
     "U+2D04", "U+2D05", "U+2D06", "U+2D07", "U+2D08", "U+2D09", "U+2D0A", "U+2D0B", "U+2D0C",
     "U+2D0D", "U+2D0E", "U+2D0F", "U+2D10", "U+2D11", "U+2D12", "U+2D13", "U+2D14", "U+2D15",
     "U+2D16", "U+2D17", "U+2D18", "U+2D19", "U+2D1A", "U+2D1B", "U+2D1C", "U+2D1D", "U+2D1E",
     "U+2D1F", "U+2D20", "U+2D21", "U+2D22", "U+2D23", "U+2D24", "U+2D25", "U+2D27", "U+2D2D",
     "U+AB70", "U+AB71", "U+AB72", "U+AB73", "U+AB74", "U+AB75", "U+AB76", "U+AB77", "U+AB78",
     "U+AB79", "U+AB7A", "U+AB7B", "U+AB7C", "U+AB7D", "U+AB7E", "U+AB7F", "ꮀ", "ꮁ", "ꮂ", "ꮃ", "ꮄ",
     "ꮅ", "ꮆ", "ꮇ", "ꮈ", "ꮉ", "ꮊ", "ꮋ", "ꮌ", "ꮍ", "ꮎ", "ꮏ", "ꮐ", "ꮑ", "ꮒ", "ꮓ", "ꮔ", "ꮕ", "ꮖ", "ꮗ",
     "ꮘ", "ꮙ", "ꮚ", "ꮛ", "ꮜ", "ꮝ", "ꮞ", "ꮟ", "ꮠ", "ꮡ", "ꮢ", "ꮣ", "ꮤ", "ꮥ", "ꮦ", "ꮧ", "ꮨ", "ꮩ", "ꮪ",
     "ꮫ", "ꮬ", "ꮭ", "ꮮ", "ꮯ", "ꮰ", "ꮱ", "ꮲ", "ꮳ", "ꮴ", "ꮵ", "ꮶ", "ꮷ", "ꮸ", "ꮹ", "ꮺ", "ꮻ", "ꮼ", "ꮽ",
     "ꮾ", "ꮿ", "ᏸ", "ᏹ", "ᏺ", "ᏻ", "ᏼ", "ᏽ", "ა", "ბ", "გ", "დ", "ე", "ვ", "ზ", "თ", "ი", "კ", "ლ",
     "მ", "ნ", "ო", "პ", "ჟ", "რ", "ს", "ტ", "უ", "ფ", "ქ", "ღ", "ყ", "შ", "ჩ", "ც", "ძ", "წ", "ჭ",
     "ხ", "ჯ", "ჰ", "ჱ", "ჲ", "ჳ", "ჴ", "ჵ", "ჶ", "ჷ", "ჸ", "ჹ", "ჺ", "ჽ", "ჾ", "ჿ", "U+1E01",
     "U+1E03", "U+1E05", "U+1E07", "U+1E09", "U+1E0B", "U+1E0D", "U+1E0F", "U+1E11", "U+1E13",
     "U+1E15", "U+1E17", "U+1E19", "U+1E1B", "U+1E1D", "U+1E1F", "U+1E21", "U+1E23", "U+1E25",
     "U+1E27", "U+1E29", "U+1E2B", "U+1E2D", "U+1E2F", "U+1E31", "U+1E33", "U+1E35", "U+1E37",
     "U+1E39", "U+1E3B", "U+1E3D", "U+1E3F", "U+1E41", "U+1E43", "U+1E45", "U+1E47", "U+1E49",
     "U+1E4B", "U+1E4D", "U+1E4F", "U+1E51", "U+1E53", "U+1E55", "U+1E57", "U+1E59", "U+1E5B",
     "U+1E5D", "U+1E5F", "U+1E61", "U+1E63", "U+1E65", "U+1E67", "U+1E69", "U+1E6B", "U+1E6D",
     "U+1E6F", "U+1E71", "U+1E73", "U+1E75", "U+1E77", "U+1E79", "U+1E7B", "U+1E7D", "U+1E7F", "ẁ",
     "ẃ", "ẅ", "ẇ", "ẉ", "ẋ", "ẍ", "ẏ", "ẑ", "ẓ", "ẕ", "ß", "ạ", "ả", "ấ", "ầ", "ẩ", "ẫ", "ậ", "ắ",
     "ằ", "ẳ", "ẵ", "ặ", "ẹ", "ẻ", "ẽ", "ế", "ề", "ể", "ễ", "ệ", "ỉ", "ị", "ọ", "ỏ", "ố", "ồ", "ổ",
     "ỗ", "ộ", "ớ", "ờ", "ở", "ỡ", "ợ", "ụ", "ủ", "ứ", "ừ", "ử", "ữ", "ự", "ỳ", "ỵ", "ỷ", "ỹ", "ỻ",
     "ỽ", "ỿ", "U+1F00", "U+1F01", "U+1F02", "U+1F03", "U+1F04", "U+1F05", "U+1F06", "U+1F07",
     "U+1F10", "U+1F11", "U+1F12", "U+1F13", "U+1F14", "U+1F15", "U+1F20", "U+1F21", "U+1F22",
     "U+1F23", "U+1F24", "U+1F25", "U+1F26", "U+1F27", "U+1F30", "U+1F31", "U+1F32", "U+1F33",
     "U+1F34", "U+1F35", "U+1F36", "U+1F37", "U+1F40", "U+1F41", "U+1F42", "U+1F43", "U+1F44",
     "U+1F45", "U+1F51", "U+1F53", "U+1F55", "U+1F57", "U+1F60", "U+1F61", "U+1F62", "U+1F63",
     "U+1F64", "U+1F65", "U+1F66", "U+1F67", "ᾀ", "ᾁ", "ᾂ", "ᾃ", "ᾄ", "ᾅ", "ᾆ", "ᾇ", "ᾐ", "ᾑ", "ᾒ",
     "ᾓ", "ᾔ", "ᾕ", "ᾖ", "ᾗ", "ᾠ", "ᾡ", "ᾢ", "ᾣ", "ᾤ", "ᾥ", "ᾦ", "ᾧ", "ᾰ", "ᾱ", "U+1F70", "U+1F71",
     "ᾳ", "U+1F72", "U+1F73", "U+1F74", "U+1F75", "ῃ", "ῐ", "ῑ", "U+1F76", "U+1F77", "ῠ", "ῡ",
     "U+1F7A", "U+1F7B", "ῥ", "U+1F78", "U+1F79", "U+1F7C", "U+1F7D", "ῳ", "ω", "k", "å", "U+214E",
     "U+2170", "U+2171", "U+2172", "U+2173", "U+2174", "U+2175", "U+2176", "U+2177", "U+2178",
     "U+2179", "U+217A", "U+217B", "U+217C", "U+217D", "U+217E", "U+217F", "ↄ", "ⓐ", "ⓑ", "ⓒ", "ⓓ",
     "ⓔ", "ⓕ", "ⓖ", "ⓗ", "ⓘ", "ⓙ", "ⓚ", "ⓛ", "ⓜ", "ⓝ", "ⓞ", "ⓟ", "ⓠ", "ⓡ", "ⓢ", "ⓣ", "ⓤ", "ⓥ", "ⓦ",
     "ⓧ", "ⓨ", "ⓩ", "U+2C30", "U+2C31", "U+2C32", "U+2C33", "U+2C34", "U+2C35", "U+2C36", "U+2C37",
     "U+2C38", "U+2C39", "U+2C3A", "U+2C3B", "U+2C3C", "U+2C3D", "U+2C3E", "U+2C3F", "U+2C40",
     "U+2C41", "U+2C42", "U+2C43", "U+2C44", "U+2C45", "U+2C46", "U+2C47", "U+2C48", "U+2C49",
     "U+2C4A", "U+2C4B", "U+2C4C", "U+2C4D", "U+2C4E", "U+2C4F", "U+2C50", "U+2C51", "U+2C52",
     "U+2C53", "U+2C54", "U+2C55", "U+2C56", "U+2C57", "U+2C58", "U+2C59", "U+2C5A", "U+2C5B",
     "U+2C5C", "U+2C5D", "U+2C5E", "U+2C5F", "U+2C61", "U+026B", "U+1D7D", "U+027D", "U+2C68",
     "U+2C6A", "U+2C6C", "U+0251", "U+0271", "U+0250", "U+0252", "U+2C73", "U+2C76", "U+023F",
     "U+0240", "ⲁ", "ⲃ", "ⲅ", "ⲇ", "ⲉ", "ⲋ", "ⲍ", "ⲏ", "ⲑ", "ⲓ", "ⲕ", "ⲗ", "ⲙ", "ⲛ", "ⲝ", "ⲟ", "ⲡ",
     "ⲣ", "ⲥ", "ⲧ", "ⲩ", "ⲫ", "ⲭ", "ⲯ", "ⲱ", "ⲳ", "ⲵ", "ⲷ", "ⲹ", "ⲻ", "ⲽ", "ⲿ", "ⳁ", "ⳃ", "ⳅ", "ⳇ",
     "ⳉ", "ⳋ", "ⳍ", "ⳏ", "ⳑ", "ⳓ", "ⳕ", "ⳗ", "ⳙ", "ⳛ", "ⳝ", "ⳟ", "ⳡ", "ⳣ", "ⳬ", "ⳮ", "ⳳ", "U+A641",
     "U+A643", "U+A645", "U+A647", "U+A649", "U+A64B", "U+A64D", "U+A64F", "U+A651", "U+A653",
     "U+A655", "U+A657", "U+A659", "U+A65B", "U+A65D", "U+A65F", "U+A661", "U+A663", "U+A665",
     "U+A667", "U+A669", "U+A66B", "U+A66D", "ꚁ", "ꚃ", "ꚅ", "ꚇ", "ꚉ", "ꚋ", "ꚍ", "ꚏ", "ꚑ", "ꚓ", "ꚕ",
     "ꚗ", "ꚙ", "ꚛ", "U+A723", "U+A725", "U+A727", "U+A729", "U+A72B", "U+A72D", "U+A72F", "U+A733",
     "U+A735", "U+A737", "U+A739", "U+A73B", "U+A73D", "U+A73F", "U+A741", "U+A743", "U+A745",
     "U+A747", "U+A749", "U+A74B", "U+A74D", "U+A74F", "U+A751", "U+A753", "U+A755", "U+A757",
     "U+A759", "U+A75B", "U+A75D", "U+A75F", "U+A761", "U+A763", "U+A765", "U+A767", "U+A769",
     "U+A76B", "U+A76D", "U+A76F", "U+A77A", "U+A77C", "U+1D79", "U+A77F", "ꞁ", "ꞃ", "ꞅ", "ꞇ", "ꞌ",
     "U+0265", "ꞑ", "ꞓ", "ꞗ", "ꞙ", "ꞛ", "ꞝ", "ꞟ", "ꞡ", "ꞣ", "ꞥ", "ꞧ", "ꞩ", "U+0266", "U+025C",
     "U+0261", "U+026C", "U+026A", "ʞ", "ʇ", "ʝ", "U+AB53", "ꞵ", "ꞷ", "ꞹ", "ꞻ", "ꞽ", "ꞿ", "ꟁ", "ꟃ",
     "ꞔ", "ʂ", "ᶎ", "ꟈ", "ꟊ", "ꟑ", "ꟗ", "ꟙ", "ꟶ", "U+FF41", "U+FF42", "U+FF43", "U+FF44", "U+FF45",
     "U+FF46", "U+FF47", "U+FF48", "U+FF49", "U+FF4A", "U+FF4B", "U+FF4C", "U+FF4D", "U+FF4E",
     "U+FF4F", "U+FF50", "U+FF51", "U+FF52", "U+FF53", "U+FF54", "U+FF55", "U+FF56", "U+FF57",
     "U+FF58", "U+FF59", "U+FF5A", "U+10428", "U+10429", "U+1042A", "U+1042B", "U+1042C",
     "U+1042D", "U+1042E", "U+1042F", "U+10430", "U+10431", "U+10432", "U+10433", "U+10434",
     "U+10435", "U+10436", "U+10437", "U+10438", "U+10439", "U+1043A", "U+1043B", "U+1043C",
     "U+1043D", "U+1043E", "U+1043F", "U+10440", "U+10441", "U+10442", "U+10443", "U+10444",
     "U+10445", "U+10446", "U+10447", "U+10448", "U+10449", "U+1044A", "U+1044B", "U+1044C",
     "U+1044D", "U+1044E", "U+1044F", "U+104D8", "U+104D9", "U+104DA", "U+104DB", "U+104DC",
     "U+104DD", "U+104DE", "U+104DF", "U+104E0", "U+104E1", "U+104E2", "U+104E3", "U+104E4",
     "U+104E5", "U+104E6", "U+104E7", "U+104E8", "U+104E9", "U+104EA", "U+104EB", "U+104EC",
     "U+104ED", "U+104EE", "U+104EF", "U+104F0", "U+104F1", "U+104F2", "U+104F3", "U+104F4",
     "U+104F5", "U+104F6", "U+104F7", "U+104F8", "U+104F9", "U+104FA", "U+104FB", "U+10597",
     "U+10598", "U+10599", "U+1059A", "U+1059B", "U+1059C", "U+1059D", "U+1059E", "U+1059F",
     "U+105A0", "U+105A1", "U+105A3", "U+105A4", "U+105A5", "U+105A6", "U+105A7", "U+105A8",
     "U+105A9", "U+105AA", "U+105AB", "U+105AC", "U+105AD", "U+105AE", "U+105AF", "U+105B0",
     "U+105B1", "U+105B3", "U+105B4", "U+105B5", "U+105B6", "U+105B7", "U+105B8", "U+105B9",
     "U+105BB", "U+105BC", "U+10CC0", "U+10CC1", "U+10CC2", "U+10CC3", "U+10CC4", "U+10CC5",
     "U+10CC6", "U+10CC7", "U+10CC8", "U+10CC9", "U+10CCA", "U+10CCB", "U+10CCC", "U+10CCD",
     "U+10CCE", "U+10CCF", "U+10CD0", "U+10CD1", "U+10CD2", "U+10CD3", "U+10CD4", "U+10CD5",
     "U+10CD6", "U+10CD7", "U+10CD8", "U+10CD9", "U+10CDA", "U+10CDB", "U+10CDC", "U+10CDD",
     "U+10CDE", "U+10CDF", "U+10CE0", "U+10CE1", "U+10CE2", "U+10CE3", "U+10CE4", "U+10CE5",
     "U+10CE6", "U+10CE7", "U+10CE8", "U+10CE9", "U+10CEA", "U+10CEB", "U+10CEC", "U+10CED",
     "U+10CEE", "U+10CEF", "U+10CF0", "U+10CF1", "U+10CF2", "U+118C0", "U+118C1", "U+118C2",
     "U+118C3", "U+118C4", "U+118C5", "U+118C6", "U+118C7", "U+118C8", "U+118C9", "U+118CA",
     "U+118CB", "U+118CC", "U+118CD", "U+118CE", "U+118CF", "U+118D0", "U+118D1", "U+118D2",
     "U+118D3", "U+118D4", "U+118D5", "U+118D6", "U+118D7", "U+118D8", "U+118D9", "U+118DA",
     "U+118DB", "U+118DC", "U+118DD", "U+118DE", "U+118DF", "U+16E60", "U+16E61", "U+16E62",
     "U+16E63", "U+16E64", "U+16E65", "U+16E66", "U+16E67", "U+16E68", "U+16E69", "U+16E6A",
     "U+16E6B", "U+16E6C", "U+16E6D", "U+16E6E", "U+16E6F", "U+16E70", "U+16E71", "U+16E72",
     "U+16E73", "U+16E74", "U+16E75", "U+16E76", "U+16E77", "U+16E78", "U+16E79", "U+16E7A",
     "U+16E7B", "U+16E7C", "U+16E7D", "U+16E7E", "U+16E7F", "U+1E922", "U+1E923", "U+1E924",
     "U+1E925", "U+1E926", "U+1E927", "U+1E928", "U+1E929", "U+1E92A", "U+1E92B", "U+1E92C",
     "U+1E92D", "U+1E92E", "U+1E92F", "U+1E930", "U+1E931", "U+1E932", "U+1E933", "U+1E934",
     "U+1E935", "U+1E936", "U+1E937", "U+1E938", "U+1E939", "U+1E93A", "U+1E93B", "U+1E93C",
     "U+1E93D", "U+1E93E", "U+1E93F", "U+1E940", "U+1E941", "U+1E942", "U+1E943"
    >>
UpperUnicodeSet == {UpperUnicode[i] : i \in 1..Len(UpperUnicode)}
\* the characters str.strip() removes
Whitespace ==
    {
     "\t", "\n", "", "\f", "\r", "", "", "", "", " ", "", " ", " ", "U+2000", "U+2001",
     "U+2002", "U+2003", "U+2004", "U+2005", "U+2006", "U+2007", "U+2008", "U+2009", "U+200A",
     "U+2028", "U+2029", "U+202F", "U+205F", "U+3000"
    }
\* the cased characters that are not case-ignorable
Cased ==
    {
     "A", "B", "C", "D", "E", "F", "G", "H", "I", "J", "K", "L", "M", "N", "O", "P", "Q", "R", "S",
     "T", "U", "V", "W", "X", "Y", "Z", "a", "b", "c", "d", "e", "f", "g", "h", "i", "j", "k", "l",
     "m", "n", "o", "p", "q", "r", "s", "t", "u", "v", "w", "x", "y", "z", "ª", "µ", "º", "À", "Á",
     "Â", "Ã", "Ä", "Å", "Æ", "Ç", "È", "É", "Ê", "Ë", "Ì", "Í", "Î", "Ï", "Ð", "Ñ", "Ò", "Ó", "Ô",
     "Õ", "Ö", "Ø", "Ù", "Ú", "Û", "Ü", "Ý", "Þ", "ß", "à", "á", "â", "ã", "ä", "å", "æ", "ç", "è",
     "é", "ê", "ë", "ì", "í", "î", "ï", "ð", "ñ", "ò", "ó", "ô", "õ", "ö", "ø", "ù", "ú", "û", "ü",
     "ý", "þ", "ÿ", "U+0100", "U+0101", "U+0102", "U+0103", "U+0104", "U+0105", "U+0106", "U+0107",
     "U+0108", "U+0109", "U+010A", "U+010B", "U+010C", "U+010D", "U+010E", "U+010F", "U+0110",
     "U+0111", "U+0112", "U+0113", "U+0114", "U+0115", "U+0116", "U+0117", "U+0118", "U+0119",
     "U+011A", "U+011B", "U+011C", "U+011D", "U+011E", "U+011F", "U+0120", "U+0121", "U+0122",
     "U+0123", "U+0124", "U+0125", "U+0126", "U+0127", "U+0128", "U+0129", "U+012A", "U+012B",
     "U+012C", "U+012D", "U+012E", "U+012F", "U+0130", "U+0131", "U+0132", "U+0133", "U+0134",
     "U+0135", "U+0136", "U+0137", "U+0138", "U+0139", "U+013A", "U+013B", "U+013C", "U+013D",
     "U+013E", "U+013F", "U+0140", "U+0141", "U+0142", "U+0143", "U+0144", "U+0145", "U+0146",
     "U+0147", "U+0148", "U+0149", "U+014A", "U+014B", "U+014C", "U+014D", "U+014E", "U+014F",
     "U+0150", "U+0151", "U+0152", "U+0153", "U+0154", "U+0155", "U+0156", "U+0157", "U+0158",
     "U+0159", "U+015A", "U+015B", "U+015C", "U+015D", "U+015E", "U+015F", "U+0160", "U+0161",
     "U+0162", "U+0163", "U+0164", "U+0165", "U+0166", "U+0167", "U+0168", "U+0169", "U+016A",
     "U+016B", "U+016C", "U+016D", "U+016E", "U+016F", "U+0170", "U+0171", "U+0172", "U+0173",
     "U+0174", "U+0175", "U+0176", "U+0177", "U+0178", "U+0179", "U+017A", "U+017B", "U+017C",
     "U+017D", "U+017E", "U+017F", "ƀ", "Ɓ", "Ƃ", "ƃ", "Ƅ", "ƅ", "Ɔ", "Ƈ", "ƈ", "Ɖ", "Ɗ", "Ƌ", "ƌ",
     "ƍ", "Ǝ", "Ə", "Ɛ", "Ƒ", "ƒ", "Ɠ", "Ɣ", "ƕ", "Ɩ", "Ɨ", "Ƙ", "ƙ", "ƚ", "ƛ", "Ɯ", "Ɲ", "ƞ", "Ɵ",
     "Ơ", "ơ", "Ƣ", "ƣ", "Ƥ", "ƥ", "Ʀ", "Ƨ", "ƨ", "Ʃ", "ƪ", "ƫ", "Ƭ", "ƭ", "Ʈ", "Ư", "ư", "Ʊ", "Ʋ",
     "Ƴ", "ƴ", "Ƶ", "ƶ", "Ʒ", "Ƹ", "ƹ", "ƺ", "Ƽ", "ƽ", "ƾ", "ƿ", "Ǆ", "ǅ", "ǆ", "Ǉ", "ǈ", "ǉ", "Ǌ",
     "ǋ", "ǌ", "Ǎ", "ǎ", "Ǐ", "ǐ", "Ǒ", "ǒ", "Ǔ", "ǔ", "Ǖ", "ǖ", "Ǘ", "ǘ", "Ǚ", "ǚ", "Ǜ", "ǜ", "ǝ",
     "Ǟ", "ǟ", "Ǡ", "ǡ", "Ǣ", "ǣ", "Ǥ", "ǥ", "Ǧ", "ǧ", "Ǩ", "ǩ", "Ǫ", "ǫ", "Ǭ", "ǭ", "Ǯ", "ǯ", "ǰ",
     "Ǳ", "ǲ", "ǳ", "Ǵ", "ǵ", "Ƕ", "Ƿ", "Ǹ", "ǹ", "Ǻ", "ǻ", "Ǽ", "ǽ", "Ǿ", "ǿ", "U+0200", "U+0201",
     "U+0202", "U+0203", "U+0204", "U+0205", "U+0206", "U+0207", "U+0208", "U+0209", "U+020A",
     "U+020B", "U+020C", "U+020D", "U+020E", "U+020F", "U+0210", "U+0211", "U+0212", "U+0213",
     "U+0214", "U+0215", "U+0216", "U+0217", "U+0218", "U+0219", "U+021A", "U+021B", "U+021C",
     "U+021D", "U+021E", "U+021F", "U+0220", "U+0221", "U+0222", "U+0223", "U+0224", "U+0225",
     "U+0226", "U+0227", "U+0228", "U+0229", "U+022A", "U+022B", "U+022C", "U+022D", "U+022E",
     "U+022F", "U+0230", "U+0231", "U+0232", "U+0233", "U+0234", "U+0235", "U+0236", "U+0237",
     "U+0238", "U+0239", "U+023A", "U+023B", "U+023C", "U+023D", "U+023E", "U+023F", "U+0240",
     "U+0241", "U+0242", "U+0243", "U+0244", "U+0245", "U+0246", "U+0247", "U+0248", "U+0249",
     "U+024A", "U+024B", "U+024C", "U+024D", "U+024E", "U+024F", "U+0250", "U+0251", "U+0252",
     "U+0253", "U+0254", "U+0255", "U+0256", "U+0257", "U+0258", "U+0259", "U+025A", "U+025B",
     "U+025C", "U+025D", "U+025E", "U+025F", "U+0260", "U+0261", "U+0262", "U+0263", "U+0264",
     "U+0265", "U+0266", "U+0267", "U+0268", "U+0269", "U+026A", "U+026B", "U+026C", "U+026D",
     "U+026E", "U+026F", "U+0270", "U+0271", "U+0272", "U+0273", "U+0274", "U+0275", "U+0276",
     "U+0277", "U+0278", "U+0279", "U+027A", "U+027B", "U+027C", "U+027D", "U+027E", "U+027F", "ʀ",
     "ʁ", "ʂ", "ʃ", "ʄ", "ʅ", "ʆ", "ʇ", "ʈ", "ʉ", "ʊ", "ʋ", "ʌ", "ʍ", "ʎ", "ʏ", "ʐ", "ʑ", "ʒ", "ʓ",
     "ʕ", "ʖ", "ʗ", "ʘ", "ʙ", "ʚ", "ʛ", "ʜ", "ʝ", "ʞ", "ʟ", "ʠ", "ʡ", "ʢ", "ʣ", "ʤ", "ʥ", "ʦ", "ʧ",
     "ʨ", "ʩ", "ʪ", "ʫ", "ʬ", "ʭ", "ʮ", "ʯ", "U+0370", "U+0371", "U+0372", "U+0373", "U+0376",
     "U+0377", "U+037B", "U+037C", "U+037D", "U+037F", "Ά", "Έ", "Ή", "Ί", "Ό", "Ύ", "Ώ", "ΐ", "Α",
     "Β", "Γ", "Δ", "Ε", "Ζ", "Η", "Θ", "Ι", "Κ", "Λ", "Μ", "Ν", "Ξ", "Ο", "Π", "Ρ", "Σ", "Τ", "Υ",
     "Φ", "Χ", "Ψ", "Ω", "Ϊ", "Ϋ", "ά", "έ", "ή", "ί", "ΰ", "α", "β", "γ", "δ", "ε", "ζ", "η", "θ",
     "ι", "κ", "λ", "μ", "ν", "ξ", "ο", "π", "ρ", "ς", "σ", "τ", "υ", "φ", "χ", "ψ", "ω", "ϊ", "ϋ",
     "ό", "ύ", "ώ", "Ϗ", "ϐ", "ϑ", "ϒ", "ϓ", "ϔ", "ϕ", "ϖ", "ϗ", "Ϙ", "ϙ", "Ϛ", "ϛ", "Ϝ", "ϝ", "Ϟ",
     "ϟ", "Ϡ", "ϡ", "Ϣ", "ϣ", "Ϥ", "ϥ", "Ϧ", "ϧ", "Ϩ", "ϩ", "Ϫ", "ϫ", "Ϭ", "ϭ", "Ϯ", "ϯ", "ϰ", "ϱ",
     "ϲ", "ϳ", "ϴ", "ϵ", "Ϸ", "ϸ", "Ϲ", "Ϻ", "ϻ", "ϼ", "Ͻ", "Ͼ", "Ͽ", "U+0400", "U+0401", "U+0402",
     "U+0403", "U+0404", "U+0405", "U+0406", "U+0407", "U+0408", "U+0409", "U+040A", "U+040B",
     "U+040C", "U+040D", "U+040E", "U+040F", "U+0410", "U+0411", "U+0412", "U+0413", "U+0414",
     "U+0415", "U+0416", "U+0417", "U+0418", "U+0419", "U+041A", "U+041B", "U+041C", "U+041D",
     "U+041E", "U+041F", "U+0420", "U+0421", "U+0422", "U+0423", "U+0424", "U+0425", "U+0426",
     "U+0427", "U+0428", "U+0429", "U+042A", "U+042B", "U+042C", "U+042D", "U+042E", "U+042F",
     "U+0430", "U+0431", "U+0432", "U+0433", "U+0434", "U+0435", "U+0436", "U+0437", "U+0438",
     "U+0439", "U+043A", "U+043B", "U+043C", "U+043D", "U+043E", "U+043F", "U+0440", "U+0441",
     "U+0442", "U+0443", "U+0444", "U+0445", "U+0446", "U+0447", "U+0448", "U+0449", "U+044A",
     "U+044B", "U+044C", "U+044D", "U+044E", "U+044F", "U+0450", "U+0451", "U+0452", "U+0453",
     "U+0454", "U+0455", "U+0456", "U+0457", "U+0458", "U+0459", "U+045A", "U+045B", "U+045C",
     "U+045D", "U+045E", "U+045F", "U+0460", "U+0461", "U+0462", "U+0463", "U+0464", "U+0465",
     "U+0466", "U+0467", "U+0468", "U+0469", "U+046A", "U+046B", "U+046C", "U+046D", "U+046E",
     "U+046F", "U+0470", "U+0471", "U+0472", "U+0473", "U+0474", "U+0475", "U+0476", "U+0477",
     "U+0478", "U+0479", "U+047A", "U+047B", "U+047C", "U+047D", "U+047E", "U+047F", "Ҁ", "ҁ", "Ҋ",
     "ҋ", "Ҍ", "ҍ", "Ҏ", "ҏ", "Ґ", "ґ", "Ғ", "ғ", "Ҕ", "ҕ", "Җ", "җ", "Ҙ", "ҙ", "Қ", "қ", "Ҝ", "ҝ",
     "Ҟ", "ҟ", "Ҡ", "ҡ", "Ң", "ң", "Ҥ", "ҥ", "Ҧ", "ҧ", "Ҩ", "ҩ", "Ҫ", "ҫ", "Ҭ", "ҭ", "Ү", "ү", "Ұ",
     "ұ", "Ҳ", "ҳ", "Ҵ", "ҵ", "Ҷ", "ҷ", "Ҹ", "ҹ", "Һ", "һ", "Ҽ", "ҽ", "Ҿ", "ҿ", "Ӏ", "Ӂ", "ӂ", "Ӄ",
     "ӄ", "Ӆ", "ӆ", "Ӈ", "ӈ", "Ӊ", "ӊ", "Ӌ", "ӌ", "Ӎ", "ӎ", "ӏ", "Ӑ", "ӑ", "Ӓ", "ӓ", "Ӕ", "ӕ", "Ӗ",
     "ӗ", "Ә", "ә", "Ӛ", "ӛ", "Ӝ", "ӝ", "Ӟ", "ӟ", "Ӡ", "ӡ", "Ӣ", "ӣ", "Ӥ", "ӥ", "Ӧ", "ӧ", "Ө", "ө",
     "Ӫ", "ӫ", "Ӭ", "ӭ", "Ӯ", "ӯ", "Ӱ", "ӱ", "Ӳ", "ӳ", "Ӵ", "ӵ", "Ӷ", "ӷ", "Ӹ", "ӹ", "Ӻ", "ӻ", "Ӽ",
     "ӽ", "Ӿ", "ӿ", "U+0500", "U+0501", "U+0502", "U+0503", "U+0504", "U+0505", "U+0506", "U+0507",
     "U+0508", "U+0509", "U+050A", "U+050B", "U+050C", "U+050D", "U+050E", "U+050F", "U+0510",
     "U+0511", "U+0512", "U+0513", "U+0514", "U+0515", "U+0516", "U+0517", "U+0518", "U+0519",
     "U+051A", "U+051B", "U+051C", "U+051D", "U+051E", "U+051F", "U+0520", "U+0521", "U+0522",
     "U+0523", "U+0524", "U+0525", "U+0526", "U+0527", "U+0528", "U+0529", "U+052A", "U+052B",
     "U+052C", "U+052D", "U+052E", "U+052F", "U+0531", "U+0532", "U+0533", "U+0534", "U+0535",
     "U+0536", "U+0537", "U+0538", "U+0539", "U+053A", "U+053B", "U+053C", "U+053D", "U+053E",
     "U+053F", "U+0540", "U+0541", "U+0542", "U+0543", "U+0544", "U+0545", "U+0546", "U+0547",
     "U+0548", "U+0549", "U+054A", "U+054B", "U+054C", "U+054D", "U+054E", "U+054F", "U+0550",
     "U+0551", "U+0552", "U+0553", "U+0554", "U+0555", "U+0556", "U+0560", "U+0561", "U+0562",
     "U+0563", "U+0564", "U+0565", "U+0566", "U+0567", "U+0568", "U+0569", "U+056A", "U+056B",
     "U+056C", "U+056D", "U+056E", "U+056F", "U+0570", "U+0571", "U+0572", "U+0573", "U+0574",
     "U+0575", "U+0576", "U+0577", "U+0578", "U+0579", "U+057A", "U+057B", "U+057C", "U+057D",
     "U+057E", "U+057F", "ր", "ց", "ւ", "փ", "ք", "օ", "ֆ", "և", "ֈ", "Ⴀ", "Ⴁ", "Ⴂ", "Ⴃ", "Ⴄ", "Ⴅ",
     "Ⴆ", "Ⴇ", "Ⴈ", "Ⴉ", "Ⴊ", "Ⴋ", "Ⴌ", "Ⴍ", "Ⴎ", "Ⴏ", "Ⴐ", "Ⴑ", "Ⴒ", "Ⴓ", "Ⴔ", "Ⴕ", "Ⴖ", "Ⴗ", "Ⴘ",
     "Ⴙ", "Ⴚ", "Ⴛ", "Ⴜ", "Ⴝ", "Ⴞ", "Ⴟ", "Ⴠ", "Ⴡ", "Ⴢ", "Ⴣ", "Ⴤ", "Ⴥ", "Ⴧ", "Ⴭ", "ა", "ბ", "გ", "დ",
     "ე", "ვ", "ზ", "თ", "ი", "კ", "ლ", "მ", "ნ", "ო", "პ", "ჟ", "რ", "ს", "ტ", "უ", "ფ", "ქ", "ღ",
     "ყ", "შ", "ჩ", "ც", "ძ", "წ", "ჭ", "ხ", "ჯ", "ჰ", "ჱ", "ჲ", "ჳ", "ჴ", "ჵ", "ჶ", "ჷ", "ჸ", "ჹ",
     "ჺ", "ჽ", "ჾ", "ჿ", "Ꭰ", "Ꭱ", "Ꭲ", "Ꭳ", "Ꭴ", "Ꭵ", "Ꭶ", "Ꭷ", "Ꭸ", "Ꭹ", "Ꭺ", "Ꭻ", "Ꭼ", "Ꭽ", "Ꭾ",
     "Ꭿ", "Ꮀ", "Ꮁ", "Ꮂ", "Ꮃ", "Ꮄ", "Ꮅ", "Ꮆ", "Ꮇ", "Ꮈ", "Ꮉ", "Ꮊ", "Ꮋ", "Ꮌ", "Ꮍ", "Ꮎ", "Ꮏ", "Ꮐ", "Ꮑ",
     "Ꮒ", "Ꮓ", "Ꮔ", "Ꮕ", "Ꮖ", "Ꮗ", "Ꮘ", "Ꮙ", "Ꮚ", "Ꮛ", "Ꮜ", "Ꮝ", "Ꮞ", "Ꮟ", "Ꮠ", "Ꮡ", "Ꮢ", "Ꮣ", "Ꮤ",
     "Ꮥ", "Ꮦ", "Ꮧ", "Ꮨ", "Ꮩ", "Ꮪ", "Ꮫ", "Ꮬ", "Ꮭ", "Ꮮ", "Ꮯ", "Ꮰ", "Ꮱ", "Ꮲ", "Ꮳ", "Ꮴ", "Ꮵ", "Ꮶ", "Ꮷ",
     "Ꮸ", "Ꮹ", "Ꮺ", "Ꮻ", "Ꮼ", "Ꮽ", "Ꮾ", "Ꮿ", "Ᏸ", "Ᏹ", "Ᏺ", "Ᏻ", "Ᏼ", "Ᏽ", "ᏸ", "ᏹ", "ᏺ", "ᏻ", "ᏼ",
     "ᏽ", "ᲀ", "ᲁ", "ᲂ", "ᲃ", "ᲄ", "ᲅ", "ᲆ", "ᲇ", "ᲈ", "Ა", "Ბ", "Გ", "Დ", "Ე", "Ვ", "Ზ", "Თ", "Ი",
     "Კ", "Ლ", "Მ", "Ნ", "Ო", "Პ", "Ჟ", "Რ", "Ს", "Ტ", "Უ", "Ფ", "Ქ", "Ღ", "Ყ", "Შ", "Ჩ", "Ც", "Ძ",
     "Წ", "Ჭ", "Ხ", "Ჯ", "Ჰ", "Ჱ", "Ჲ", "Ჳ", "Ჴ", "Ჵ", "Ჶ", "Ჷ", "Ჸ", "Ჹ", "Ჺ", "Ჽ", "Ჾ", "Ჿ",
     "U+1D00", "U+1D01", "U+1D02", "U+1D03", "U+1D04", "U+1D05", "U+1D06", "U+1D07", "U+1D08",
     "U+1D09", "U+1D0A", "U+1D0B", "U+1D0C", "U+1D0D", "U+1D0E", "U+1D0F", "U+1D10", "U+1D11",
     "U+1D12", "U+1D13", "U+1D14", "U+1D15", "U+1D16", "U+1D17", "U+1D18", "U+1D19", "U+1D1A",
     "U+1D1B", "U+1D1C", "U+1D1D", "U+1D1E", "U+1D1F", "U+1D20", "U+1D21", "U+1D22", "U+1D23",
     "U+1D24", "U+1D25", "U+1D26", "U+1D27", "U+1D28", "U+1D29", "U+1D2A", "U+1D2B", "U+1D6B",
     "U+1D6C", "U+1D6D", "U+1D6E", "U+1D6F", "U+1D70", "U+1D71", "U+1D72", "U+1D73", "U+1D74",
     "U+1D75", "U+1D76", "U+1D77", "U+1D79", "U+1D7A", "U+1D7B", "U+1D7C", "U+1D7D", "U+1D7E",
     "U+1D7F", "ᶀ", "ᶁ", "ᶂ", "ᶃ", "ᶄ", "ᶅ", "ᶆ", "ᶇ", "ᶈ", "ᶉ", "ᶊ", "ᶋ", "ᶌ", "ᶍ", "ᶎ", "ᶏ", "ᶐ",
     "ᶑ", "ᶒ", "ᶓ", "ᶔ", "ᶕ", "ᶖ", "ᶗ", "ᶘ", "ᶙ", "ᶚ", "U+1E00", "U+1E01", "U+1E02", "U+1E03",
     "U+1E04", "U+1E05", "U+1E06", "U+1E07", "U+1E08", "U+1E09", "U+1E0A", "U+1E0B", "U+1E0C",
     "U+1E0D", "U+1E0E", "U+1E0F", "U+1E10", "U+1E11", "U+1E12", "U+1E13", "U+1E14", "U+1E15",
     "U+1E16", "U+1E17", "U+1E18", "U+1E19", "U+1E1A", "U+1E1B", "U+1E1C", "U+1E1D", "U+1E1E",
     "U+1E1F", "U+1E20", "U+1E21", "U+1E22", "U+1E23", "U+1E24", "U+1E25", "U+1E26", "U+1E27",
     "U+1E28", "U+1E29", "U+1E2A", "U+1E2B", "U+1E2C", "U+1E2D", "U+1E2E", "U+1E2F", "U+1E30",
     "U+1E31", "U+1E32", "U+1E33", "U+1E34", "U+1E35", "U+1E36", "U+1E37", "U+1E38", "U+1E39",
     "U+1E3A", "U+1E3B", "U+1E3C", "U+1E3D", "U+1E3E", "U+1E3F", "U+1E40", "U+1E41", "U+1E42",
     "U+1E43", "U+1E44", "U+1E45", "U+1E46", "U+1E47", "U+1E48", "U+1E49", "U+1E4A", "U+1E4B",
     "U+1E4C", "U+1E4D", "U+1E4E", "U+1E4F", "U+1E50", "U+1E51", "U+1E52", "U+1E53", "U+1E54",
     "U+1E55", "U+1E56", "U+1E57", "U+1E58", "U+1E59", "U+1E5A", "U+1E5B", "U+1E5C", "U+1E5D",
     "U+1E5E", "U+1E5F", "U+1E60", "U+1E61", "U+1E62", "U+1E63", "U+1E64", "U+1E65", "U+1E66",
     "U+1E67", "U+1E68", "U+1E69", "U+1E6A", "U+1E6B", "U+1E6C", "U+1E6D", "U+1E6E", "U+1E6F",
     "U+1E70", "U+1E71", "U+1E72", "U+1E73", "U+1E74", "U+1E75", "U+1E76", "U+1E77", "U+1E78",
     "U+1E79", "U+1E7A", "U+1E7B", "U+1E7C", "U+1E7D", "U+1E7E", "U+1E7F", "Ẁ", "ẁ", "Ẃ", "ẃ", "Ẅ",
     "ẅ", "Ẇ", "ẇ", "Ẉ", "ẉ", "Ẋ", "ẋ", "Ẍ", "ẍ", "Ẏ", "ẏ", "Ẑ", "ẑ", "Ẓ", "ẓ", "Ẕ", "ẕ", "ẖ", "ẗ",
     "ẘ", "ẙ", "ẚ", "ẛ", "ẜ", "ẝ", "ẞ", "ẟ", "Ạ", "ạ", "Ả", "ả", "Ấ", "ấ", "Ầ", "ầ", "Ẩ", "ẩ", "Ẫ",
     "ẫ", "Ậ", "ậ", "Ắ", "ắ", "Ằ", "ằ", "Ẳ", "ẳ", "Ẵ", "ẵ", "Ặ", "ặ", "Ẹ", "ẹ", "Ẻ", "ẻ", "Ẽ", "ẽ",
     "Ế", "ế", "Ề", "ề", "Ể", "ể", "Ễ", "ễ", "Ệ", "ệ", "Ỉ", "ỉ", "Ị", "ị", "Ọ", "ọ", "Ỏ", "ỏ", "Ố",
     "ố", "Ồ", "ồ", "Ổ", "ổ", "Ỗ", "ỗ", "Ộ", "ộ", "Ớ", "ớ", "Ờ", "ờ", "Ở", "ở", "Ỡ", "ỡ", "Ợ", "ợ",
     "Ụ", "ụ", "Ủ", "ủ", "Ứ", "ứ", "Ừ", "ừ", "Ử", "ử", "Ữ", "ữ", "Ự", "ự", "Ỳ", "ỳ", "Ỵ", "ỵ", "Ỷ",
     "ỷ", "Ỹ", "ỹ", "Ỻ", "ỻ", "Ỽ", "ỽ", "Ỿ", "ỿ", "U+1F00", "U+1F01", "U+1F02", "U+1F03", "U+1F04",
     "U+1F05", "U+1F06", "U+1F07", "U+1F08", "U+1F09", "U+1F0A", "U+1F0B", "U+1F0C", "U+1F0D",
     "U+1F0E", "U+1F0F", "U+1F10", "U+1F11", "U+1F12", "U+1F13", "U+1F14", "U+1F15", "U+1F18",
     "U+1F19", "U+1F1A", "U+1F1B", "U+1F1C", "U+1F1D", "U+1F20", "U+1F21", "U+1F22", "U+1F23",
     "U+1F24", "U+1F25", "U+1F26", "U+1F27", "U+1F28", "U+1F29", "U+1F2A", "U+1F2B", "U+1F2C",
     "U+1F2D", "U+1F2E", "U+1F2F", "U+1F30", "U+1F31", "U+1F32", "U+1F33", "U+1F34", "U+1F35",
     "U+1F36", "U+1F37", "U+1F38", "U+1F39", "U+1F3A", "U+1F3B", "U+1F3C", "U+1F3D", "U+1F3E",
     "U+1F3F", "U+1F40", "U+1F41", "U+1F42", "U+1F43", "U+1F44", "U+1F45", "U+1F48", "U+1F49",
     "U+1F4A", "U+1F4B", "U+1F4C", "U+1F4D", "U+1F50", "U+1F51", "U+1F52", "U+1F53", "U+1F54",
     "U+1F55", "U+1F56", "U+1F57", "U+1F59", "U+1F5B", "U+1F5D", "U+1F5F", "U+1F60", "U+1F61",
     "U+1F62", "U+1F63", "U+1F64", "U+1F65", "U+1F66", "U+1F67", "U+1F68", "U+1F69", "U+1F6A",
     "U+1F6B", "U+1F6C", "U+1F6D", "U+1F6E", "U+1F6F", "U+1F70", "U+1F71", "U+1F72", "U+1F73",
     "U+1F74", "U+1F75", "U+1F76", "U+1F77", "U+1F78", "U+1F79", "U+1F7A", "U+1F7B", "U+1F7C",
     "U+1F7D", "ᾀ", "ᾁ", "ᾂ", "ᾃ", "ᾄ", "ᾅ", "ᾆ", "ᾇ", "ᾈ", "ᾉ", "ᾊ", "ᾋ", "ᾌ", "ᾍ", "ᾎ", "ᾏ", "ᾐ",
     "ᾑ", "ᾒ", "ᾓ", "ᾔ", "ᾕ", "ᾖ", "ᾗ", "ᾘ", "ᾙ", "ᾚ", "ᾛ", "ᾜ", "ᾝ", "ᾞ", "ᾟ", "ᾠ", "ᾡ", "ᾢ", "ᾣ",
     "ᾤ", "ᾥ", "ᾦ", "ᾧ", "ᾨ", "ᾩ", "ᾪ", "ᾫ", "ᾬ", "ᾭ", "ᾮ", "ᾯ", "ᾰ", "ᾱ", "ᾲ", "ᾳ", "ᾴ", "ᾶ", "ᾷ",
     "Ᾰ", "Ᾱ", "Ὰ", "Ά", "ᾼ", "ι", "ῂ", "ῃ", "ῄ", "ῆ", "ῇ", "Ὲ", "Έ", "Ὴ", "Ή", "ῌ", "ῐ", "ῑ", "ῒ",
     "ΐ", "ῖ", "ῗ", "Ῐ", "Ῑ", "Ὶ", "Ί", "ῠ", "ῡ", "ῢ", "ΰ", "ῤ", "ῥ", "ῦ", "ῧ", "Ῠ", "Ῡ", "Ὺ", "Ύ",
     "Ῥ", "ῲ", "ῳ", "ῴ", "ῶ", "ῷ", "Ὸ", "Ό", "Ὼ", "Ώ", "ῼ", "U+2102", "U+2107", "U+210A", "U+210B",
     "U+210C", "U+210D", "U+210E", "U+210F", "U+2110", "U+2111", "U+2112", "U+2113", "U+2115",
     "U+2119", "U+211A", "U+211B", "U+211C", "U+211D", "U+2124", "U+2126", "U+2128", "U+212A",
     "U+212B", "U+212C", "U+212D", "U+212F", "U+2130", "U+2131", "U+2132", "U+2133", "U+2134",
     "U+2139", "U+213C", "U+213D", "U+213E", "U+213F", "U+2145", "U+2146", "U+2147", "U+2148",
     "U+2149", "U+214E", "U+2160", "U+2161", "U+2162", "U+2163", "U+2164", "U+2165", "U+2166",
     "U+2167", "U+2168", "U+2169", "U+216A", "U+216B", "U+216C", "U+216D", "U+216E", "U+216F",
     "U+2170", "U+2171", "U+2172", "U+2173", "U+2174", "U+2175", "U+2176", "U+2177", "U+2178",
     "U+2179", "U+217A", "U+217B", "U+217C", "U+217D", "U+217E", "U+217F", "Ↄ", "ↄ", "Ⓐ", "Ⓑ", "Ⓒ",
     "Ⓓ", "Ⓔ", "Ⓕ", "Ⓖ", "Ⓗ", "Ⓘ", "Ⓙ", "Ⓚ", "Ⓛ", "Ⓜ", "Ⓝ", "Ⓞ", "Ⓟ", "Ⓠ", "Ⓡ", "Ⓢ", "Ⓣ", "Ⓤ", "Ⓥ",
     "Ⓦ", "Ⓧ", "Ⓨ", "Ⓩ", "ⓐ", "ⓑ", "ⓒ", "ⓓ", "ⓔ", "ⓕ", "ⓖ", "ⓗ", "ⓘ", "ⓙ", "ⓚ", "ⓛ", "ⓜ", "ⓝ", "ⓞ",
     "ⓟ", "ⓠ", "ⓡ", "ⓢ", "ⓣ", "ⓤ", "ⓥ", "ⓦ", "ⓧ", "ⓨ", "ⓩ", "U+2C00", "U+2C01", "U+2C02", "U+2C03",
     "U+2C04", "U+2C05", "U+2C06", "U+2C07", "U+2C08", "U+2C09", "U+2C0A", "U+2C0B", "U+2C0C",
     "U+2C0D", "U+2C0E", "U+2C0F", "U+2C10", "U+2C11", "U+2C12", "U+2C13", "U+2C14", "U+2C15",
     "U+2C16", "U+2C17", "U+2C18", "U+2C19", "U+2C1A", "U+2C1B", "U+2C1C", "U+2C1D", "U+2C1E",
     "U+2C1F", "U+2C20", "U+2C21", "U+2C22", "U+2C23", "U+2C24", "U+2C25", "U+2C26", "U+2C27",
     "U+2C28", "U+2C29", "U+2C2A", "U+2C2B", "U+2C2C", "U+2C2D", "U+2C2E", "U+2C2F", "U+2C30",
     "U+2C31", "U+2C32", "U+2C33", "U+2C34", "U+2C35", "U+2C36", "U+2C37", "U+2C38", "U+2C39",
     "U+2C3A", "U+2C3B", "U+2C3C", "U+2C3D", "U+2C3E", "U+2C3F", "U+2C40", "U+2C41", "U+2C42",
     "U+2C43", "U+2C44", "U+2C45", "U+2C46", "U+2C47", "U+2C48", "U+2C49", "U+2C4A", "U+2C4B",
     "U+2C4C", "U+2C4D", "U+2C4E", "U+2C4F", "U+2C50", "U+2C51", "U+2C52", "U+2C53", "U+2C54",
     "U+2C55", "U+2C56", "U+2C57", "U+2C58", "U+2C59", "U+2C5A", "U+2C5B", "U+2C5C", "U+2C5D",
     "U+2C5E", "U+2C5F", "U+2C60", "U+2C61", "U+2C62", "U+2C63", "U+2C64", "U+2C65", "U+2C66",
     "U+2C67", "U+2C68", "U+2C69", "U+2C6A", "U+2C6B", "U+2C6C", "U+2C6D", "U+2C6E", "U+2C6F",
     "U+2C70", "U+2C71", "U+2C72", "U+2C73", "U+2C74", "U+2C75", "U+2C76", "U+2C77", "U+2C78",
     "U+2C79", "U+2C7A", "U+2C7B", "U+2C7E", "U+2C7F", "Ⲁ", "ⲁ", "Ⲃ", "ⲃ", "Ⲅ", "ⲅ", "Ⲇ", "ⲇ", "Ⲉ",
     "ⲉ", "Ⲋ", "ⲋ", "Ⲍ", "ⲍ", "Ⲏ", "ⲏ", "Ⲑ", "ⲑ", "Ⲓ", "ⲓ", "Ⲕ", "ⲕ", "Ⲗ", "ⲗ", "Ⲙ", "ⲙ", "Ⲛ", "ⲛ",
     "Ⲝ", "ⲝ", "Ⲟ", "ⲟ", "Ⲡ", "ⲡ", "Ⲣ", "ⲣ", "Ⲥ", "ⲥ", "Ⲧ", "ⲧ", "Ⲩ", "ⲩ", "Ⲫ", "ⲫ", "Ⲭ", "ⲭ", "Ⲯ",
     "ⲯ", "Ⲱ", "ⲱ", "Ⲳ", "ⲳ", "Ⲵ", "ⲵ", "Ⲷ", "ⲷ", "Ⲹ", "ⲹ", "Ⲻ", "ⲻ", "Ⲽ", "ⲽ", "Ⲿ", "ⲿ", "Ⳁ", "ⳁ",
     "Ⳃ", "ⳃ", "Ⳅ", "ⳅ", "Ⳇ", "ⳇ", "Ⳉ", "ⳉ", "Ⳋ", "ⳋ", "Ⳍ", "ⳍ", "Ⳏ", "ⳏ", "Ⳑ", "ⳑ", "Ⳓ", "ⳓ", "Ⳕ",
     "ⳕ", "Ⳗ", "ⳗ", "Ⳙ", "ⳙ", "Ⳛ", "ⳛ", "Ⳝ", "ⳝ", "Ⳟ", "ⳟ", "Ⳡ", "ⳡ", "Ⳣ", "ⳣ", "ⳤ", "Ⳬ", "ⳬ", "Ⳮ",
     "ⳮ", "Ⳳ", "ⳳ", "U+2D00", "U+2D01", "U+2D02", "U+2D03", "U+2D04", "U+2D05", "U+2D06", "U+2D07",
     "U+2D08", "U+2D09", "U+2D0A", "U+2D0B", "U+2D0C", "U+2D0D", "U+2D0E", "U+2D0F", "U+2D10",
     "U+2D11", "U+2D12", "U+2D13", "U+2D14", "U+2D15", "U+2D16", "U+2D17", "U+2D18", "U+2D19",
     "U+2D1A", "U+2D1B", "U+2D1C", "U+2D1D", "U+2D1E", "U+2D1F", "U+2D20", "U+2D21", "U+2D22",
     "U+2D23", "U+2D24", "U+2D25", "U+2D27", "U+2D2D", "U+A640", "U+A641", "U+A642", "U+A643",
     "U+A644", "U+A645", "U+A646", "U+A647", "U+A648", "U+A649", "U+A64A", "U+A64B", "U+A64C",
     "U+A64D", "U+A64E", "U+A64F", "U+A650", "U+A651", "U+A652", "U+A653", "U+A654", "U+A655",
     "U+A656", "U+A657", "U+A658", "U+A659", "U+A65A", "U+A65B", "U+A65C", "U+A65D", "U+A65E",
     "U+A65F", "U+A660", "U+A661", "U+A662", "U+A663", "U+A664", "U+A665", "U+A666", "U+A667",
     "U+A668", "U+A669", "U+A66A", "U+A66B", "U+A66C", "U+A66D", "Ꚁ", "ꚁ", "Ꚃ", "ꚃ", "Ꚅ", "ꚅ", "Ꚇ",
     "ꚇ", "Ꚉ", "ꚉ", "Ꚋ", "ꚋ", "Ꚍ", "ꚍ", "Ꚏ", "ꚏ", "Ꚑ", "ꚑ", "Ꚓ", "ꚓ", "Ꚕ", "ꚕ", "Ꚗ", "ꚗ", "Ꚙ", "ꚙ",
     "Ꚛ", "ꚛ", "U+A722", "U+A723", "U+A724", "U+A725", "U+A726", "U+A727", "U+A728", "U+A729",
     "U+A72A", "U+A72B", "U+A72C", "U+A72D", "U+A72E", "U+A72F", "U+A730", "U+A731", "U+A732",
     "U+A733", "U+A734", "U+A735", "U+A736", "U+A737", "U+A738", "U+A739", "U+A73A", "U+A73B",
     "U+A73C", "U+A73D", "U+A73E", "U+A73F", "U+A740", "U+A741", "U+A742", "U+A743", "U+A744",
     "U+A745", "U+A746", "U+A747", "U+A748", "U+A749", "U+A74A", "U+A74B", "U+A74C", "U+A74D",
     "U+A74E", "U+A74F", "U+A750", "U+A751", "U+A752", "U+A753", "U+A754", "U+A755", "U+A756",
     "U+A757", "U+A758", "U+A759", "U+A75A", "U+A75B", "U+A75C", "U+A75D", "U+A75E", "U+A75F",
     "U+A760", "U+A761", "U+A762", "U+A763", "U+A764", "U+A765", "U+A766", "U+A767", "U+A768",
     "U+A769", "U+A76A", "U+A76B", "U+A76C", "U+A76D", "U+A76E", "U+A76F", "U+A771", "U+A772",
     "U+A773", "U+A774", "U+A775", "U+A776", "U+A777", "U+A778", "U+A779", "U+A77A", "U+A77B",
     "U+A77C", "U+A77D", "U+A77E", "U+A77F", "Ꞁ", "ꞁ", "Ꞃ", "ꞃ", "Ꞅ", "ꞅ", "Ꞇ", "ꞇ", "Ꞌ", "ꞌ", "Ɥ",
     "ꞎ", "Ꞑ", "ꞑ", "Ꞓ", "ꞓ", "ꞔ", "ꞕ", "Ꞗ", "ꞗ", "Ꞙ", "ꞙ", "Ꞛ", "ꞛ", "Ꞝ", "ꞝ", "Ꞟ", "ꞟ", "Ꞡ", "ꞡ",
     "Ꞣ", "ꞣ", "Ꞥ", "ꞥ", "Ꞧ", "ꞧ", "Ꞩ", "ꞩ", "Ɦ", "Ɜ", "Ɡ", "Ɬ", "Ɪ", "ꞯ", "Ʞ", "Ʇ", "Ʝ", "Ꭓ", "Ꞵ",
     "ꞵ", "Ꞷ", "ꞷ", "Ꞹ", "ꞹ", "Ꞻ", "ꞻ", "Ꞽ", "ꞽ", "Ꞿ", "ꞿ", "Ꟁ", "ꟁ", "Ꟃ", "ꟃ", "Ꞔ", "Ʂ", "Ᶎ", "Ꟈ",
     "ꟈ", "Ꟊ", "ꟊ", "Ꟑ", "ꟑ", "ꟓ", "ꟕ", "Ꟗ", "ꟗ", "Ꟙ", "ꟙ", "Ꟶ", "ꟶ", "ꟺ", "U+AB30", "U+AB31",
     "U+AB32", "U+AB33", "U+AB34", "U+AB35", "U+AB36", "U+AB37", "U+AB38", "U+AB39", "U+AB3A",
     "U+AB3B", "U+AB3C", "U+AB3D", "U+AB3E", "U+AB3F", "U+AB40", "U+AB41", "U+AB42", "U+AB43",
     "U+AB44", "U+AB45", "U+AB46", "U+AB47", "U+AB48", "U+AB49", "U+AB4A", "U+AB4B", "U+AB4C",
     "U+AB4D", "U+AB4E", "U+AB4F", "U+AB50", "U+AB51", "U+AB52", "U+AB53", "U+AB54", "U+AB55",
     "U+AB56", "U+AB57", "U+AB58", "U+AB59", "U+AB5A", "U+AB60", "U+AB61", "U+AB62", "U+AB63",
     "U+AB64", "U+AB65", "U+AB66", "U+AB67", "U+AB68", "U+AB70", "U+AB71", "U+AB72", "U+AB73",
     "U+AB74", "U+AB75", "U+AB76", "U+AB77", "U+AB78", "U+AB79", "U+AB7A", "U+AB7B", "U+AB7C",
     "U+AB7D", "U+AB7E", "U+AB7F", "ꮀ", "ꮁ", "ꮂ", "ꮃ", "ꮄ", "ꮅ", "ꮆ", "ꮇ", "ꮈ", "ꮉ", "ꮊ", "ꮋ", "ꮌ",
     "ꮍ", "ꮎ", "ꮏ", "ꮐ", "ꮑ", "ꮒ", "ꮓ", "ꮔ", "ꮕ", "ꮖ", "ꮗ", "ꮘ", "ꮙ", "ꮚ", "ꮛ", "ꮜ", "ꮝ", "ꮞ", "ꮟ",
     "ꮠ", "ꮡ", "ꮢ", "ꮣ", "ꮤ", "ꮥ", "ꮦ", "ꮧ", "ꮨ", "ꮩ", "ꮪ", "ꮫ", "ꮬ", "ꮭ", "ꮮ", "ꮯ", "ꮰ", "ꮱ", "ꮲ",
     "ꮳ", "ꮴ", "ꮵ", "ꮶ", "ꮷ", "ꮸ", "ꮹ", "ꮺ", "ꮻ", "ꮼ", "ꮽ", "ꮾ", "ꮿ", "U+FB00", "U+FB01", "U+FB02",
     "U+FB03", "U+FB04", "U+FB05", "U+FB06", "U+FB13", "U+FB14", "U+FB15", "U+FB16", "U+FB17",
     "U+FF21", "U+FF22", "U+FF23", "U+FF24", "U+FF25", "U+FF26", "U+FF27", "U+FF28", "U+FF29",
     "U+FF2A", "U+FF2B", "U+FF2C", "U+FF2D", "U+FF2E", "U+FF2F", "U+FF30", "U+FF31", "U+FF32",
     "U+FF33", "U+FF34", "U+FF35", "U+FF36", "U+FF37", "U+FF38", "U+FF39", "U+FF3A", "U+FF41",
     "U+FF42", "U+FF43", "U+FF44", "U+FF45", "U+FF46", "U+FF47", "U+FF48", "U+FF49", "U+FF4A",
     "U+FF4B", "U+FF4C", "U+FF4D", "U+FF4E", "U+FF4F", "U+FF50", "U+FF51", "U+FF52", "U+FF53",
     "U+FF54", "U+FF55", "U+FF56", "U+FF57", "U+FF58", "U+FF59", "U+FF5A", "U+10400", "U+10401",
     "U+10402", "U+10403", "U+10404", "U+10405", "U+10406", "U+10407", "U+10408", "U+10409",
     "U+1040A", "U+1040B", "U+1040C", "U+1040D", "U+1040E", "U+1040F", "U+10410", "U+10411",
     "U+10412", "U+10413", "U+10414", "U+10415", "U+10416", "U+10417", "U+10418", "U+10419",
     "U+1041A", "U+1041B", "U+1041C", "U+1041D", "U+1041E", "U+1041F", "U+10420", "U+10421",
     "U+10422", "U+10423", "U+10424", "U+10425", "U+10426", "U+10427", "U+10428", "U+10429",
     "U+1042A", "U+1042B", "U+1042C", "U+1042D", "U+1042E", "U+1042F", "U+10430", "U+10431",
     "U+10432", "U+10433", "U+10434", "U+10435", "U+10436", "U+10437", "U+10438", "U+10439",
     "U+1043A", "U+1043B", "U+1043C", "U+1043D", "U+1043E", "U+1043F", "U+10440", "U+10441",
     "U+10442", "U+10443", "U+10444", "U+10445", "U+10446", "U+10447", "U+10448", "U+10449",
     "U+1044A", "U+1044B", "U+1044C", "U+1044D", "U+1044E", "U+1044F", "U+104B0", "U+104B1",
     "U+104B2", "U+104B3", "U+104B4", "U+104B5", "U+104B6", "U+104B7", "U+104B8", "U+104B9",
     "U+104BA", "U+104BB", "U+104BC", "U+104BD", "U+104BE", "U+104BF", "U+104C0", "U+104C1",
     "U+104C2", "U+104C3", "U+104C4", "U+104C5", "U+104C6", "U+104C7", "U+104C8", "U+104C9",
     "U+104CA", "U+104CB", "U+104CC", "U+104CD", "U+104CE", "U+104CF", "U+104D0", "U+104D1",
     "U+104D2", "U+104D3", "U+104D8", "U+104D9", "U+104DA", "U+104DB", "U+104DC", "U+104DD",
     "U+104DE", "U+104DF", "U+104E0", "U+104E1", "U+104E2", "U+104E3", "U+104E4", "U+104E5",
     "U+104E6", "U+104E7", "U+104E8", "U+104E9", "U+104EA", "U+104EB", "U+104EC", "U+104ED",
     "U+104EE", "U+104EF", "U+104F0", "U+104F1", "U+104F2", "U+104F3", "U+104F4", "U+104F5",
     "U+104F6", "U+104F7", "U+104F8", "U+104F9", "U+104FA", "U+104FB", "U+10570", "U+10571",
     "U+10572", "U+10573", "U+10574", "U+10575", "U+10576", "U+10577", "U+10578", "U+10579",
     "U+1057A", "U+1057C", "U+1057D", "U+1057E", "U+1057F", "U+10580", "U+10581", "U+10582",
     "U+10583", "U+10584", "U+10585", "U+10586", "U+10587", "U+10588", "U+10589", "U+1058A",
     "U+1058C", "U+1058D", "U+1058E", "U+1058F", "U+10590", "U+10591", "U+10592", "U+10594",
     "U+10595", "U+10597", "U+10598", "U+10599", "U+1059A", "U+1059B", "U+1059C", "U+1059D",
     "U+1059E", "U+1059F", "U+105A0", "U+105A1", "U+105A3", "U+105A4", "U+105A5", "U+105A6",
     "U+105A7", "U+105A8", "U+105A9", "U+105AA", "U+105AB", "U+105AC", "U+105AD", "U+105AE",
     "U+105AF", "U+105B0", "U+105B1", "U+105B3", "U+105B4", "U+105B5", "U+105B6", "U+105B7",
     "U+105B8", "U+105B9", "U+105BB", "U+105BC", "U+10C80", "U+10C81", "U+10C82", "U+10C83",
     "U+10C84", "U+10C85", "U+10C86", "U+10C87", "U+10C88", "U+10C89", "U+10C8A", "U+10C8B",
     "U+10C8C", "U+10C8D", "U+10C8E", "U+10C8F", "U+10C90", "U+10C91", "U+10C92", "U+10C93",
     "U+10C94", "U+10C95", "U+10C96", "U+10C97", "U+10C98", "U+10C99", "U+10C9A", "U+10C9B",
     "U+10C9C", "U+10C9D", "U+10C9E", "U+10C9F", "U+10CA0", "U+10CA1", "U+10CA2", "U+10CA3",
     "U+10CA4", "U+10CA5", "U+10CA6", "U+10CA7", "U+10CA8", "U+10CA9", "U+10CAA", "U+10CAB",
     "U+10CAC", "U+10CAD", "U+10CAE", "U+10CAF", "U+10CB0", "U+10CB1", "U+10CB2", "U+10CC0",
     "U+10CC1", "U+10CC2", "U+10CC3", "U+10CC4", "U+10CC5", "U+10CC6", "U+10CC7", "U+10CC8",
     "U+10CC9", "U+10CCA", "U+10CCB", "U+10CCC", "U+10CCD", "U+10CCE", "U+10CCF", "U+10CD0",
     "U+10CD1", "U+10CD2", "U+10CD3", "U+10CD4", "U+10CD5", "U+10CD6", "U+10CD7", "U+10CD8",
     "U+10CD9", "U+10CDA", "U+10CDB", "U+10CDC", "U+10CDD", "U+10CDE", "U+10CDF", "U+10CE0",
     "U+10CE1", "U+10CE2", "U+10CE3", "U+10CE4", "U+10CE5", "U+10CE6", "U+10CE7", "U+10CE8",
     "U+10CE9", "U+10CEA", "U+10CEB", "U+10CEC", "U+10CED", "U+10CEE", "U+10CEF", "U+10CF0",
     "U+10CF1", "U+10CF2", "U+118A0", "U+118A1", "U+118A2", "U+118A3", "U+118A4", "U+118A5",
     "U+118A6", "U+118A7", "U+118A8", "U+118A9", "U+118AA", "U+118AB", "U+118AC", "U+118AD",
     "U+118AE", "U+118AF", "U+118B0", "U+118B1", "U+118B2", "U+118B3", "U+118B4", "U+118B5",
     "U+118B6", "U+118B7", "U+118B8", "U+118B9", "U+118BA", "U+118BB", "U+118BC", "U+118BD",
     "U+118BE", "U+118BF", "U+118C0", "U+118C1", "U+118C2", "U+118C3", "U+118C4", "U+118C5",
     "U+118C6", "U+118C7", "U+118C8", "U+118C9", "U+118CA", "U+118CB", "U+118CC", "U+118CD",
     "U+118CE", "U+118CF", "U+118D0", "U+118D1", "U+118D2", "U+118D3", "U+118D4", "U+118D5",
     "U+118D6", "U+118D7", "U+118D8", "U+118D9", "U+118DA", "U+118DB", "U+118DC", "U+118DD",
     "U+118DE", "U+118DF", "U+16E40", "U+16E41", "U+16E42", "U+16E43", "U+16E44", "U+16E45",
     "U+16E46", "U+16E47", "U+16E48", "U+16E49", "U+16E4A", "U+16E4B", "U+16E4C", "U+16E4D",
     "U+16E4E", "U+16E4F", "U+16E50", "U+16E51", "U+16E52", "U+16E53", "U+16E54", "U+16E55",
     "U+16E56", "U+16E57", "U+16E58", "U+16E59", "U+16E5A", "U+16E5B", "U+16E5C", "U+16E5D",
     "U+16E5E", "U+16E5F", "U+16E60", "U+16E61", "U+16E62", "U+16E63", "U+16E64", "U+16E65",
     "U+16E66", "U+16E67", "U+16E68", "U+16E69", "U+16E6A", "U+16E6B", "U+16E6C", "U+16E6D",
     "U+16E6E", "U+16E6F", "U+16E70", "U+16E71", "U+16E72", "U+16E73", "U+16E74", "U+16E75",
     "U+16E76", "U+16E77", "U+16E78", "U+16E79", "U+16E7A", "U+16E7B", "U+16E7C", "U+16E7D",
     "U+16E7E", "U+16E7F", "U+1D400", "U+1D401", "U+1D402", "U+1D403", "U+1D404", "U+1D405",
     "U+1D406", "U+1D407", "U+1D408", "U+1D409", "U+1D40A", "U+1D40B", "U+1D40C", "U+1D40D",
     "U+1D40E", "U+1D40F", "U+1D410", "U+1D411", "U+1D412", "U+1D413", "U+1D414", "U+1D415",
     "U+1D416", "U+1D417", "U+1D418", "U+1D419", "U+1D41A", "U+1D41B", "U+1D41C", "U+1D41D",
     "U+1D41E", "U+1D41F", "U+1D420", "U+1D421", "U+1D422", "U+1D423", "U+1D424", "U+1D425",
     "U+1D426", "U+1D427", "U+1D428", "U+1D429", "U+1D42A", "U+1D42B", "U+1D42C", "U+1D42D",
     "U+1D42E", "U+1D42F", "U+1D430", "U+1D431", "U+1D432", "U+1D433", "U+1D434", "U+1D435",
     "U+1D436", "U+1D437", "U+1D438", "U+1D439", "U+1D43A", "U+1D43B", "U+1D43C", "U+1D43D",
     "U+1D43E", "U+1D43F", "U+1D440", "U+1D441", "U+1D442", "U+1D443", "U+1D444", "U+1D445",
     "U+1D446", "U+1D447", "U+1D448", "U+1D449", "U+1D44A", "U+1D44B", "U+1D44C", "U+1D44D",
     "U+1D44E", "U+1D44F", "U+1D450", "U+1D451", "U+1D452", "U+1D453", "U+1D454", "U+1D456",
     "U+1D457", "U+1D458", "U+1D459", "U+1D45A", "U+1D45B", "U+1D45C", "U+1D45D", "U+1D45E",
     "U+1D45F", "U+1D460", "U+1D461", "U+1D462", "U+1D463", "U+1D464", "U+1D465", "U+1D466",
     "U+1D467", "U+1D468", "U+1D469", "U+1D46A", "U+1D46B", "U+1D46C", "U+1D46D", "U+1D46E",
     "U+1D46F", "U+1D470", "U+1D471", "U+1D472", "U+1D473", "U+1D474", "U+1D475", "U+1D476",
     "U+1D477", "U+1D478", "U+1D479", "U+1D47A", "U+1D47B", "U+1D47C", "U+1D47D", "U+1D47E",
     "U+1D47F", "U+1D480", "U+1D481", "U+1D482", "U+1D483", "U+1D484", "U+1D485", "U+1D486",
     "U+1D487", "U+1D488", "U+1D489", "U+1D48A", "U+1D48B", "U+1D48C", "U+1D48D", "U+1D48E",
     "U+1D48F", "U+1D490", "U+1D491", "U+1D492", "U+1D493", "U+1D494", "U+1D495", "U+1D496",
     "U+1D497", "U+1D498", "U+1D499", "U+1D49A", "U+1D49B", "U+1D49C", "U+1D49E", "U+1D49F",
     "U+1D4A2", "U+1D4A5", "U+1D4A6", "U+1D4A9", "U+1D4AA", "U+1D4AB", "U+1D4AC", "U+1D4AE",
     "U+1D4AF", "U+1D4B0", "U+1D4B1", "U+1D4B2", "U+1D4B3", "U+1D4B4", "U+1D4B5", "U+1D4B6",
     "U+1D4B7", "U+1D4B8", "U+1D4B9", "U+1D4BB", "U+1D4BD", "U+1D4BE", "U+1D4BF", "U+1D4C0",
     "U+1D4C1", "U+1D4C2", "U+1D4C3", "U+1D4C5", "U+1D4C6", "U+1D4C7", "U+1D4C8", "U+1D4C9",
     "U+1D4CA", "U+1D4CB", "U+1D4CC", "U+1D4CD", "U+1D4CE", "U+1D4CF", "U+1D4D0", "U+1D4D1",
     "U+1D4D2", "U+1D4D3", "U+1D4D4", "U+1D4D5", "U+1D4D6", "U+1D4D7", "U+1D4D8", "U+1D4D9",
     "U+1D4DA", "U+1D4DB", "U+1D4DC", "U+1D4DD", "U+1D4DE", "U+1D4DF", "U+1D4E0", "U+1D4E1",
     "U+1D4E2", "U+1D4E3", "U+1D4E4", "U+1D4E5", "U+1D4E6", "U+1D4E7", "U+1D4E8", "U+1D4E9",
     "U+1D4EA", "U+1D4EB", "U+1D4EC", "U+1D4ED", "U+1D4EE", "U+1D4EF", "U+1D4F0", "U+1D4F1",
     "U+1D4F2", "U+1D4F3", "U+1D4F4", "U+1D4F5", "U+1D4F6", "U+1D4F7", "U+1D4F8", "U+1D4F9",
     "U+1D4FA", "U+1D4FB", "U+1D4FC", "U+1D4FD", "U+1D4FE", "U+1D4FF", "U+1D500", "U+1D501",
     "U+1D502", "U+1D503", "U+1D504", "U+1D505", "U+1D507", "U+1D508", "U+1D509", "U+1D50A",
     "U+1D50D", "U+1D50E", "U+1D50F", "U+1D510", "U+1D511", "U+1D512", "U+1D513", "U+1D514",
     "U+1D516", "U+1D517", "U+1D518", "U+1D519", "U+1D51A", "U+1D51B", "U+1D51C", "U+1D51E",
     "U+1D51F", "U+1D520", "U+1D521", "U+1D522", "U+1D523", "U+1D524", "U+1D525", "U+1D526",
     "U+1D527", "U+1D528", "U+1D529", "U+1D52A", "U+1D52B", "U+1D52C", "U+1D52D", "U+1D52E",
     "U+1D52F", "U+1D530", "U+1D531", "U+1D532", "U+1D533", "U+1D534", "U+1D535", "U+1D536",
     "U+1D537", "U+1D538", "U+1D539", "U+1D53B", "U+1D53C", "U+1D53D", "U+1D53E", "U+1D540",
     "U+1D541", "U+1D542", "U+1D543", "U+1D544", "U+1D546", "U+1D54A", "U+1D54B", "U+1D54C",
     "U+1D54D", "U+1D54E", "U+1D54F", "U+1D550", "U+1D552", "U+1D553", "U+1D554", "U+1D555",
     "U+1D556", "U+1D557", "U+1D558", "U+1D559", "U+1D55A", "U+1D55B", "U+1D55C", "U+1D55D",
     "U+1D55E", "U+1D55F", "U+1D560", "U+1D561", "U+1D562", "U+1D563", "U+1D564", "U+1D565",
     "U+1D566", "U+1D567", "U+1D568", "U+1D569", "U+1D56A", "U+1D56B", "U+1D56C", "U+1D56D",
     "U+1D56E", "U+1D56F", "U+1D570", "U+1D571", "U+1D572", "U+1D573", "U+1D574", "U+1D575",
     "U+1D576", "U+1D577", "U+1D578", "U+1D579", "U+1D57A", "U+1D57B", "U+1D57C", "U+1D57D",
     "U+1D57E", "U+1D57F", "U+1D580", "U+1D581", "U+1D582", "U+1D583", "U+1D584", "U+1D585",
     "U+1D586", "U+1D587", "U+1D588", "U+1D589", "U+1D58A", "U+1D58B", "U+1D58C", "U+1D58D",
     "U+1D58E", "U+1D58F", "U+1D590", "U+1D591", "U+1D592", "U+1D593", "U+1D594", "U+1D595",
     "U+1D596", "U+1D597", "U+1D598", "U+1D599", "U+1D59A", "U+1D59B", "U+1D59C", "U+1D59D",
     "U+1D59E", "U+1D59F", "U+1D5A0", "U+1D5A1", "U+1D5A2", "U+1D5A3", "U+1D5A4", "U+1D5A5",
     "U+1D5A6", "U+1D5A7", "U+1D5A8", "U+1D5A9", "U+1D5AA", "U+1D5AB", "U+1D5AC", "U+1D5AD",
     "U+1D5AE", "U+1D5AF", "U+1D5B0", "U+1D5B1", "U+1D5B2", "U+1D5B3", "U+1D5B4", "U+1D5B5",
     "U+1D5B6", "U+1D5B7", "U+1D5B8", "U+1D5B9", "U+1D5BA", "U+1D5BB", "U+1D5BC", "U+1D5BD",
     "U+1D5BE", "U+1D5BF", "U+1D5C0", "U+1D5C1", "U+1D5C2", "U+1D5C3", "U+1D5C4", "U+1D5C5",
     "U+1D5C6", "U+1D5C7", "U+1D5C8", "U+1D5C9", "U+1D5CA", "U+1D5CB", "U+1D5CC", "U+1D5CD",
     "U+1D5CE", "U+1D5CF", "U+1D5D0", "U+1D5D1", "U+1D5D2", "U+1D5D3", "U+1D5D4", "U+1D5D5",
     "U+1D5D6", "U+1D5D7", "U+1D5D8", "U+1D5D9", "U+1D5DA", "U+1D5DB", "U+1D5DC", "U+1D5DD",
     "U+1D5DE", "U+1D5DF", "U+1D5E0", "U+1D5E1", "U+1D5E2", "U+1D5E3", "U+1D5E4", "U+1D5E5",
     "U+1D5E6", "U+1D5E7", "U+1D5E8", "U+1D5E9", "U+1D5EA", "U+1D5EB", "U+1D5EC", "U+1D5ED",
     "U+1D5EE", "U+1D5EF", "U+1D5F0", "U+1D5F1", "U+1D5F2", "U+1D5F3", "U+1D5F4", "U+1D5F5",
     "U+1D5F6", "U+1D5F7", "U+1D5F8", "U+1D5F9", "U+1D5FA", "U+1D5FB", "U+1D5FC", "U+1D5FD",
     "U+1D5FE", "U+1D5FF", "U+1D600", "U+1D601", "U+1D602", "U+1D603", "U+1D604", "U+1D605",
     "U+1D606", "U+1D607", "U+1D608", "U+1D609", "U+1D60A", "U+1D60B", "U+1D60C", "U+1D60D",
     "U+1D60E", "U+1D60F", "U+1D610", "U+1D611", "U+1D612", "U+1D613", "U+1D614", "U+1D615",
     "U+1D616", "U+1D617", "U+1D618", "U+1D619", "U+1D61A", "U+1D61B", "U+1D61C", "U+1D61D",
     "U+1D61E", "U+1D61F", "U+1D620", "U+1D621", "U+1D622", "U+1D623", "U+1D624", "U+1D625",
     "U+1D626", "U+1D627", "U+1D628", "U+1D629", "U+1D62A", "U+1D62B", "U+1D62C", "U+1D62D",
     "U+1D62E", "U+1D62F", "U+1D630", "U+1D631", "U+1D632", "U+1D633", "U+1D634", "U+1D635",
     "U+1D636", "U+1D637", "U+1D638", "U+1D639", "U+1D63A", "U+1D63B", "U+1D63C", "U+1D63D",
     "U+1D63E", "U+1D63F", "U+1D640", "U+1D641", "U+1D642", "U+1D643", "U+1D644", "U+1D645",
     "U+1D646", "U+1D647", "U+1D648", "U+1D649", "U+1D64A", "U+1D64B", "U+1D64C", "U+1D64D",
     "U+1D64E", "U+1D64F", "U+1D650", "U+1D651", "U+1D652", "U+1D653", "U+1D654", "U+1D655",
     "U+1D656", "U+1D657", "U+1D658", "U+1D659", "U+1D65A", "U+1D65B", "U+1D65C", "U+1D65D",
     "U+1D65E", "U+1D65F", "U+1D660", "U+1D661", "U+1D662", "U+1D663", "U+1D664", "U+1D665",
     "U+1D666", "U+1D667", "U+1D668", "U+1D669", "U+1D66A", "U+1D66B", "U+1D66C", "U+1D66D",
     "U+1D66E", "U+1D66F", "U+1D670", "U+1D671", "U+1D672", "U+1D673", "U+1D674", "U+1D675",
     "U+1D676", "U+1D677", "U+1D678", "U+1D679", "U+1D67A", "U+1D67B", "U+1D67C", "U+1D67D",
     "U+1D67E", "U+1D67F", "U+1D680", "U+1D681", "U+1D682", "U+1D683", "U+1D684", "U+1D685",
     "U+1D686", "U+1D687", "U+1D688", "U+1D689", "U+1D68A", "U+1D68B", "U+1D68C", "U+1D68D",
     "U+1D68E", "U+1D68F", "U+1D690", "U+1D691", "U+1D692", "U+1D693", "U+1D694", "U+1D695",
     "U+1D696", "U+1D697", "U+1D698", "U+1D699", "U+1D69A", "U+1D69B", "U+1D69C", "U+1D69D",
     "U+1D69E", "U+1D69F", "U+1D6A0", "U+1D6A1", "U+1D6A2", "U+1D6A3", "U+1D6A4", "U+1D6A5",
     "U+1D6A8", "U+1D6A9", "U+1D6AA", "U+1D6AB", "U+1D6AC", "U+1D6AD", "U+1D6AE", "U+1D6AF",
     "U+1D6B0", "U+1D6B1", "U+1D6B2", "U+1D6B3", "U+1D6B4", "U+1D6B5", "U+1D6B6", "U+1D6B7",
     "U+1D6B8", "U+1D6B9", "U+1D6BA", "U+1D6BB", "U+1D6BC", "U+1D6BD", "U+1D6BE", "U+1D6BF",
     "U+1D6C0", "U+1D6C2", "U+1D6C3", "U+1D6C4", "U+1D6C5", "U+1D6C6", "U+1D6C7", "U+1D6C8",
     "U+1D6C9", "U+1D6CA", "U+1D6CB", "U+1D6CC", "U+1D6CD", "U+1D6CE", "U+1D6CF", "U+1D6D0",
     "U+1D6D1", "U+1D6D2", "U+1D6D3", "U+1D6D4", "U+1D6D5", "U+1D6D6", "U+1D6D7", "U+1D6D8",
     "U+1D6D9", "U+1D6DA", "U+1D6DC", "U+1D6DD", "U+1D6DE", "U+1D6DF", "U+1D6E0", "U+1D6E1",
     "U+1D6E2", "U+1D6E3", "U+1D6E4", "U+1D6E5", "U+1D6E6", "U+1D6E7", "U+1D6E8", "U+1D6E9",
     "U+1D6EA", "U+1D6EB", "U+1D6EC", "U+1D6ED", "U+1D6EE", "U+1D6EF", "U+1D6F0", "U+1D6F1",
     "U+1D6F2", "U+1D6F3", "U+1D6F4", "U+1D6F5", "U+1D6F6", "U+1D6F7", "U+1D6F8", "U+1D6F9",
     "U+1D6FA", "U+1D6FC", "U+1D6FD", "U+1D6FE", "U+1D6FF", "U+1D700", "U+1D701", "U+1D702",
     "U+1D703", "U+1D704", "U+1D705", "U+1D706", "U+1D707", "U+1D708", "U+1D709", "U+1D70A",
     "U+1D70B", "U+1D70C", "U+1D70D", "U+1D70E", "U+1D70F", "U+1D710", "U+1D711", "U+1D712",
     "U+1D713", "U+1D714", "U+1D716", "U+1D717", "U+1D718", "U+1D719", "U+1D71A", "U+1D71B",
     "U+1D71C", "U+1D71D", "U+1D71E", "U+1D71F", "U+1D720", "U+1D721", "U+1D722", "U+1D723",
     "U+1D724", "U+1D725", "U+1D726", "U+1D727", "U+1D728", "U+1D729", "U+1D72A", "U+1D72B",
     "U+1D72C", "U+1D72D", "U+1D72E", "U+1D72F", "U+1D730", "U+1D731", "U+1D732", "U+1D733",
     "U+1D734", "U+1D736", "U+1D737", "U+1D738", "U+1D739", "U+1D73A", "U+1D73B", "U+1D73C",
     "U+1D73D", "U+1D73E", "U+1D73F", "U+1D740", "U+1D741", "U+1D742", "U+1D743", "U+1D744",
     "U+1D745", "U+1D746", "U+1D747", "U+1D748", "U+1D749", "U+1D74A", "U+1D74B", "U+1D74C",
     "U+1D74D", "U+1D74E", "U+1D750", "U+1D751", "U+1D752", "U+1D753", "U+1D754", "U+1D755",
     "U+1D756", "U+1D757", "U+1D758", "U+1D759", "U+1D75A", "U+1D75B", "U+1D75C", "U+1D75D",
     "U+1D75E", "U+1D75F", "U+1D760", "U+1D761", "U+1D762", "U+1D763", "U+1D764", "U+1D765",
     "U+1D766", "U+1D767", "U+1D768", "U+1D769", "U+1D76A", "U+1D76B", "U+1D76C", "U+1D76D",
     "U+1D76E", "U+1D770", "U+1D771", "U+1D772", "U+1D773", "U+1D774", "U+1D775", "U+1D776",
     "U+1D777", "U+1D778", "U+1D779", "U+1D77A", "U+1D77B", "U+1D77C", "U+1D77D", "U+1D77E",
     "U+1D77F", "U+1D780", "U+1D781", "U+1D782", "U+1D783", "U+1D784", "U+1D785", "U+1D786",
     "U+1D787", "U+1D788", "U+1D78A", "U+1D78B", "U+1D78C", "U+1D78D", "U+1D78E", "U+1D78F",
     "U+1D790", "U+1D791", "U+1D792", "U+1D793", "U+1D794", "U+1D795", "U+1D796", "U+1D797",
     "U+1D798", "U+1D799", "U+1D79A", "U+1D79B", "U+1D79C", "U+1D79D", "U+1D79E", "U+1D79F",
     "U+1D7A0", "U+1D7A1", "U+1D7A2", "U+1D7A3", "U+1D7A4", "U+1D7A5", "U+1D7A6", "U+1D7A7",
     "U+1D7A8", "U+1D7AA", "U+1D7AB", "U+1D7AC", "U+1D7AD", "U+1D7AE", "U+1D7AF", "U+1D7B0",
     "U+1D7B1", "U+1D7B2", "U+1D7B3", "U+1D7B4", "U+1D7B5", "U+1D7B6", "U+1D7B7", "U+1D7B8",
     "U+1D7B9", "U+1D7BA", "U+1D7BB", "U+1D7BC", "U+1D7BD", "U+1D7BE", "U+1D7BF", "U+1D7C0",
     "U+1D7C1", "U+1D7C2", "U+1D7C4", "U+1D7C5", "U+1D7C6", "U+1D7C7", "U+1D7C8", "U+1D7C9",
     "U+1D7CA", "U+1D7CB", "U+1DF00", "U+1DF01", "U+1DF02", "U+1DF03", "U+1DF04", "U+1DF05",
     "U+1DF06", "U+1DF07", "U+1DF08", "U+1DF09", "U+1DF0B", "U+1DF0C", "U+1DF0D", "U+1DF0E",
     "U+1DF0F", "U+1DF10", "U+1DF11", "U+1DF12", "U+1DF13", "U+1DF14", "U+1DF15", "U+1DF16",
     "U+1DF17", "U+1DF18", "U+1DF19", "U+1DF1A", "U+1DF1B", "U+1DF1C", "U+1DF1D", "U+1DF1E",
     "U+1E900", "U+1E901", "U+1E902", "U+1E903", "U+1E904", "U+1E905", "U+1E906", "U+1E907",
     "U+1E908", "U+1E909", "U+1E90A", "U+1E90B", "U+1E90C", "U+1E90D", "U+1E90E", "U+1E90F",
     "U+1E910", "U+1E911", "U+1E912", "U+1E913", "U+1E914", "U+1E915", "U+1E916", "U+1E917",
     "U+1E918", "U+1E919", "U+1E91A", "U+1E91B", "U+1E91C", "U+1E91D", "U+1E91E", "U+1E91F",
     "U+1E920", "U+1E921", "U+1E922", "U+1E923", "U+1E924", "U+1E925", "U+1E926", "U+1E927",
     "U+1E928", "U+1E929", "U+1E92A", "U+1E92B", "U+1E92C", "U+1E92D", "U+1E92E", "U+1E92F",
     "U+1E930", "U+1E931", "U+1E932", "U+1E933", "U+1E934", "U+1E935", "U+1E936", "U+1E937",
     "U+1E938", "U+1E939", "U+1E93A", "U+1E93B", "U+1E93C", "U+1E93D", "U+1E93E", "U+1E93F",
     "U+1E940", "U+1E941", "U+1E942", "U+1E943", "U+1F130", "U+1F131", "U+1F132", "U+1F133",
     "U+1F134", "U+1F135", "U+1F136", "U+1F137", "U+1F138", "U+1F139", "U+1F13A", "U+1F13B",
     "U+1F13C", "U+1F13D", "U+1F13E", "U+1F13F", "U+1F140", "U+1F141", "U+1F142", "U+1F143",
     "U+1F144", "U+1F145", "U+1F146", "U+1F147", "U+1F148", "U+1F149", "U+1F150", "U+1F151",
     "U+1F152", "U+1F153", "U+1F154", "U+1F155", "U+1F156", "U+1F157", "U+1F158", "U+1F159",
     "U+1F15A", "U+1F15B", "U+1F15C", "U+1F15D", "U+1F15E", "U+1F15F", "U+1F160", "U+1F161",
     "U+1F162", "U+1F163", "U+1F164", "U+1F165", "U+1F166", "U+1F167", "U+1F168", "U+1F169",
     "U+1F170", "U+1F171", "U+1F172", "U+1F173", "U+1F174", "U+1F175", "U+1F176", "U+1F177",
     "U+1F178", "U+1F179", "U+1F17A", "U+1F17B", "U+1F17C", "U+1F17D", "U+1F17E", "U+1F17F",
     "U+1F180", "U+1F181", "U+1F182", "U+1F183", "U+1F184", "U+1F185", "U+1F186", "U+1F187",
     "U+1F188", "U+1F189"
    }
\* the case-ignorable characters
CaseIgnorable ==
    {
     "'", ".", ":", "^", "U+0060", "¨", "­", "¯", "´", "·", "¸", "ʰ", "ʱ", "ʲ", "ʳ", "ʴ", "ʵ", "ʶ",
     "ʷ", "ʸ", "ʹ", "ʺ", "ʻ", "ʼ", "ʽ", "ʾ", "ʿ", "ˀ", "ˁ", "˂", "˃", "˄", "˅", "ˆ", "ˇ", "ˈ", "ˉ",
     "ˊ", "ˋ", "ˌ", "ˍ", "ˎ", "ˏ", "ː", "ˑ", "˒", "˓", "˔", "˕", "˖", "˗", "˘", "˙", "˚", "˛", "˜",
     "˝", "˞", "˟", "ˠ", "ˡ", "ˢ", "ˣ", "ˤ", "˥", "˦", "˧", "˨", "˩", "˪", "˫", "ˬ", "˭", "ˮ", "˯",
     "˰", "˱", "˲", "˳", "˴", "˵", "˶", "˷", "˸", "˹", "˺", "˻", "˼", "˽", "˾", "˿", "U+0300",
     "U+0301", "U+0302", "U+0303", "U+0304", "U+0305", "U+0306", "U+0307", "U+0308", "U+0309",
     "U+030A", "U+030B", "U+030C", "U+030D", "U+030E", "U+030F", "U+0310", "U+0311", "U+0312",
     "U+0313", "U+0314", "U+0315", "U+0316", "U+0317", "U+0318", "U+0319", "U+031A", "U+031B",
     "U+031C", "U+031D", "U+031E", "U+031F", "U+0320", "U+0321", "U+0322", "U+0323", "U+0324",
     "U+0325", "U+0326", "U+0327", "U+0328", "U+0329", "U+032A", "U+032B", "U+032C", "U+032D",
     "U+032E", "U+032F", "U+0330", "U+0331", "U+0332", "U+0333", "U+0334", "U+0335", "U+0336",
     "U+0337", "U+0338", "U+0339", "U+033A", "U+033B", "U+033C", "U+033D", "U+033E", "U+033F",
     "U+0340", "U+0341", "U+0342", "U+0343", "U+0344", "U+0345", "U+0346", "U+0347", "U+0348",
     "U+0349", "U+034A", "U+034B", "U+034C", "U+034D", "U+034E", "U+034F", "U+0350", "U+0351",
     "U+0352", "U+0353", "U+0354", "U+0355", "U+0356", "U+0357", "U+0358", "U+0359", "U+035A",
     "U+035B", "U+035C", "U+035D", "U+035E", "U+035F", "U+0360", "U+0361", "U+0362", "U+0363",
     "U+0364", "U+0365", "U+0366", "U+0367", "U+0368", "U+0369", "U+036A", "U+036B", "U+036C",
     "U+036D", "U+036E", "U+036F", "U+0374", "U+0375", "U+037A", "΄", "΅", "·", "҃", "҄", "҅", "҆",
     "҇", "҈", "҉", "U+0559", "U+055F", "֑", "֒", "֓", "֔", "֕", "֖", "֗", "֘", "֙", "֚", "֛", "֜",
     "֝", "֞", "֟", "֠", "֡", "֢", "֣", "֤", "֥", "֦", "֧", "֨", "֩", "֪", "֫", "֬", "֭", "֮", "֯",
     "ְ", "ֱ", "ֲ", "ֳ", "ִ", "ֵ", "ֶ", "ַ", "ָ", "ֹ", "ֺ", "ֻ", "ּ", "ֽ", "ֿ", "ׁ", "ׂ", "ׄ", "ׅ",
     "ׇ", "״", "U+0600", "U+0601", "U+0602", "U+0603", "U+0604", "U+0605", "U+0610", "U+0611",
     "U+0612", "U+0613", "U+0614", "U+0615", "U+0616", "U+0617", "U+0618", "U+0619", "U+061A",
     "U+061C", "U+0640", "U+064B", "U+064C", "U+064D", "U+064E", "U+064F", "U+0650", "U+0651",
     "U+0652", "U+0653", "U+0654", "U+0655", "U+0656", "U+0657", "U+0658", "U+0659", "U+065A",
     "U+065B", "U+065C", "U+065D", "U+065E", "U+065F", "U+0670", "ۖ", "ۗ", "ۘ", "ۙ", "ۚ", "ۛ", "ۜ",
     "۝", "۟", "۠", "ۡ", "ۢ", "ۣ", "ۤ", "ۥ", "ۦ", "ۧ", "ۨ", "۪", "۫", "۬", "ۭ", "U+070F", "U+0711",
     "U+0730", "U+0731", "U+0732", "U+0733", "U+0734", "U+0735", "U+0736", "U+0737", "U+0738",
     "U+0739", "U+073A", "U+073B", "U+073C", "U+073D", "U+073E", "U+073F", "U+0740", "U+0741",
     "U+0742", "U+0743", "U+0744", "U+0745", "U+0746", "U+0747", "U+0748", "U+0749", "U+074A", "ަ",
     "ާ", "ި", "ީ", "ު", "ޫ", "ެ", "ޭ", "ޮ", "ޯ", "ް", "߫", "߬", "߭", "߮", "߯", "߰", "߱", "߲", "߳",
     "ߴ", "ߵ", "ߺ", "߽", "U+0816", "U+0817", "U+0818", "U+0819", "U+081A", "U+081B", "U+081C",
     "U+081D", "U+081E", "U+081F", "U+0820", "U+0821", "U+0822", "U+0823", "U+0824", "U+0825",
     "U+0826", "U+0827", "U+0828", "U+0829", "U+082A", "U+082B", "U+082C", "U+082D", "U+0859",
     "U+085A", "U+085B", "࢈", "࢐", "࢑", "࢘", "࢙", "࢚", "࢛", "࢜", "࢝", "࢞", "࢟", "ࣉ", "࣊", "࣋", "࣌",
     "࣍", "࣎", "࣏", "࣐", "࣑", "࣒", "࣓", "ࣔ", "ࣕ", "ࣖ", "ࣗ", "ࣘ", "ࣙ", "ࣚ", "ࣛ", "ࣜ", "ࣝ", "ࣞ", "ࣟ",
     "࣠", "࣡", "࣢", "ࣣ", "ࣤ", "ࣥ", "ࣦ", "ࣧ", "ࣨ", "ࣩ", "࣪", "࣫", "࣬", "࣭", "࣮", "࣯", "ࣰ", "ࣱ", "ࣲ",
     "ࣳ", "ࣴ", "ࣵ", "ࣶ", "ࣷ", "ࣸ", "ࣹ", "ࣺ", "ࣻ", "ࣼ", "ࣽ", "ࣾ", "ࣿ", "U+0900", "U+0901", "U+0902",
     "U+093A", "U+093C", "U+0941", "U+0942", "U+0943", "U+0944", "U+0945", "U+0946", "U+0947",
     "U+0948", "U+094D", "U+0951", "U+0952", "U+0953", "U+0954", "U+0955", "U+0956", "U+0957",
     "U+0962", "U+0963", "U+0971", "ঁ", "়", "ু", "ূ", "ৃ", "ৄ", "্", "ৢ", "ৣ", "৾", "U+0A01",
     "U+0A02", "U+0A3C", "U+0A41", "U+0A42", "U+0A47", "U+0A48", "U+0A4B", "U+0A4C", "U+0A4D",
     "U+0A51", "U+0A70", "U+0A71", "U+0A75", "ઁ", "ં", "઼", "ુ", "ૂ", "ૃ", "ૄ", "ૅ", "ે", "ૈ", "્",
     "ૢ", "ૣ", "ૺ", "ૻ", "ૼ", "૽", "૾", "૿", "U+0B01", "U+0B3C", "U+0B3F", "U+0B41", "U+0B42",
     "U+0B43", "U+0B44", "U+0B4D", "U+0B55", "U+0B56", "U+0B62", "U+0B63", "ஂ", "ீ", "்", "U+0C00",
     "U+0C04", "U+0C3C", "U+0C3E", "U+0C3F", "U+0C40", "U+0C46", "U+0C47", "U+0C48", "U+0C4A",
     "U+0C4B", "U+0C4C", "U+0C4D", "U+0C55", "U+0C56", "U+0C62", "U+0C63", "ಁ", "಼", "ಿ", "ೆ", "ೌ",
     "್", "ೢ", "ೣ", "U+0D00", "U+0D01", "U+0D3B", "U+0D3C", "U+0D41", "U+0D42", "U+0D43", "U+0D44",
     "U+0D4D", "U+0D62", "U+0D63", "ඁ", "්", "ි", "ී", "ු", "ූ", "U+0E31", "U+0E34", "U+0E35",
     "U+0E36", "U+0E37", "U+0E38", "U+0E39", "U+0E3A", "U+0E46", "U+0E47", "U+0E48", "U+0E49",
     "U+0E4A", "U+0E4B", "U+0E4C", "U+0E4D", "U+0E4E", "ັ", "ິ", "ີ", "ຶ", "ື", "ຸ", "ູ", "຺", "ົ",
     "ຼ", "ໆ", "່", "້", "໊", "໋", "໌", "ໍ", "U+0F18", "U+0F19", "U+0F35", "U+0F37", "U+0F39",
     "U+0F71", "U+0F72", "U+0F73", "U+0F74", "U+0F75", "U+0F76", "U+0F77", "U+0F78", "U+0F79",
     "U+0F7A", "U+0F7B", "U+0F7C", "U+0F7D", "U+0F7E", "ྀ", "ཱྀ", "ྂ", "ྃ", "྄", "྆", "྇", "ྍ", "ྎ",
     "ྏ", "ྐ", "ྑ", "ྒ", "ྒྷ", "ྔ", "ྕ", "ྖ", "ྗ", "ྙ", "ྚ", "ྛ", "ྜ", "ྜྷ", "ྞ", "ྟ", "ྠ", "ྡ", "ྡྷ",
     "ྣ", "ྤ", "ྥ", "ྦ", "ྦྷ", "ྨ", "ྩ", "ྪ", "ྫ", "ྫྷ", "ྭ", "ྮ", "ྯ", "ྰ", "ྱ", "ྲ", "ླ", "ྴ", "ྵ",
     "ྶ", "ྷ", "ྸ", "ྐྵ", "ྺ", "ྻ", "ྼ", "࿆", "U+102D", "U+102E", "U+102F", "U+1030", "U+1032",
     "U+1033", "U+1034", "U+1035", "U+1036", "U+1037", "U+1039", "U+103A", "U+103D", "U+103E",
     "U+1058", "U+1059", "U+105E", "U+105F", "U+1060", "U+1071", "U+1072", "U+1073", "U+1074", "ႂ",
     "ႅ", "ႆ", "ႍ", "ႝ", "ჼ", "U+135D", "U+135E", "U+135F", "U+1712", "U+1713", "U+1714", "U+1732",
     "U+1733", "U+1752", "U+1753", "U+1772", "U+1773", "឴", "឵", "ិ", "ី", "ឹ", "ឺ", "ុ", "ូ", "ួ",
     "ំ", "៉", "៊", "់", "៌", "៍", "៎", "៏", "័", "៑", "្", "៓", "ៗ", "៝", "U+180B", "U+180C",
     "U+180D", "U+180E", "U+180F", "U+1843", "ᢅ", "ᢆ", "ᢩ", "U+1920", "U+1921", "U+1922", "U+1927",
     "U+1928", "U+1932", "U+1939", "U+193A", "U+193B", "U+1A17", "U+1A18", "U+1A1B", "U+1A56",
     "U+1A58", "U+1A59", "U+1A5A", "U+1A5B", "U+1A5C", "U+1A5D", "U+1A5E", "U+1A60", "U+1A62",
     "U+1A65", "U+1A66", "U+1A67", "U+1A68", "U+1A69", "U+1A6A", "U+1A6B", "U+1A6C", "U+1A73",
     "U+1A74", "U+1A75", "U+1A76", "U+1A77", "U+1A78", "U+1A79", "U+1A7A", "U+1A7B", "U+1A7C",
     "U+1A7F", "ᪧ", "᪰", "᪱", "᪲", "᪳", "᪴", "᪵", "᪶", "᪷", "᪸", "᪹", "᪺", "᪻", "᪼", "᪽", "᪾", "ᪿ",
     "ᫀ", "᫁", "᫂", "᫃", "᫄", "᫅", "᫆", "᫇", "᫈", "᫉", "᫊", "᫋", "ᫌ", "ᫍ", "ᫎ", "U+1B00", "U+1B01",
     "U+1B02", "U+1B03", "U+1B34", "U+1B36", "U+1B37", "U+1B38", "U+1B39", "U+1B3A", "U+1B3C",
     "U+1B42", "U+1B6B", "U+1B6C", "U+1B6D", "U+1B6E", "U+1B6F", "U+1B70", "U+1B71", "U+1B72",
     "U+1B73", "ᮀ", "ᮁ", "ᮢ", "ᮣ", "ᮤ", "ᮥ", "ᮨ", "ᮩ", "᮫", "ᮬ", "ᮭ", "᯦", "ᯨ", "ᯩ", "ᯭ", "ᯯ", "ᯰ",
     "ᯱ", "U+1C2C", "U+1C2D", "U+1C2E", "U+1C2F", "U+1C30", "U+1C31", "U+1C32", "U+1C33", "U+1C36",
     "U+1C37", "U+1C78", "U+1C79", "U+1C7A", "U+1C7B", "U+1C7C", "U+1C7D", "᳐", "᳑", "᳒", "᳔", "᳕",
     "᳖", "᳗", "᳘", "᳙", "᳚", "᳛", "᳜", "᳝", "᳞", "᳟", "᳠", "᳢", "᳣", "᳤", "᳥", "᳦", "᳧", "᳨", "᳭",
     "᳴", "᳸", "᳹", "U+1D2C", "U+1D2D", "U+1D2E", "U+1D2F", "U+1D30", "U+1D31", "U+1D32", "U+1D33",
     "U+1D34", "U+1D35", "U+1D36", "U+1D37", "U+1D38", "U+1D39", "U+1D3A", "U+1D3B", "U+1D3C",
     "U+1D3D", "U+1D3E", "U+1D3F", "U+1D40", "U+1D41", "U+1D42", "U+1D43", "U+1D44", "U+1D45",
     "U+1D46", "U+1D47", "U+1D48", "U+1D49", "U+1D4A", "U+1D4B", "U+1D4C", "U+1D4D", "U+1D4E",
     "U+1D4F", "U+1D50", "U+1D51", "U+1D52", "U+1D53", "U+1D54", "U+1D55", "U+1D56", "U+1D57",
     "U+1D58", "U+1D59", "U+1D5A", "U+1D5B", "U+1D5C", "U+1D5D", "U+1D5E", "U+1D5F", "U+1D60",
     "U+1D61", "U+1D62", "U+1D63", "U+1D64", "U+1D65", "U+1D66", "U+1D67", "U+1D68", "U+1D69",
     "U+1D6A", "U+1D78", "ᶛ", "ᶜ", "ᶝ", "ᶞ", "ᶟ", "ᶠ", "ᶡ", "ᶢ", "ᶣ", "ᶤ", "ᶥ", "ᶦ", "ᶧ", "ᶨ", "ᶩ",
     "ᶪ", "ᶫ", "ᶬ", "ᶭ", "ᶮ", "ᶯ", "ᶰ", "ᶱ", "ᶲ", "ᶳ", "ᶴ", "ᶵ", "ᶶ", "ᶷ", "ᶸ", "ᶹ", "ᶺ", "ᶻ", "ᶼ",
     "ᶽ", "ᶾ", "ᶿ", "᷀", "᷁", "᷂", "᷃", "᷄", "᷅", "᷆", "᷇", "᷈", "᷉", "᷊", "᷋", "᷌", "᷍", "᷎", "᷏",
     "᷐", "᷑", "᷒", "ᷓ", "ᷔ", "ᷕ", "ᷖ", "ᷗ", "ᷘ", "ᷙ", "ᷚ", "ᷛ", "ᷜ", "ᷝ", "ᷞ", "ᷟ", "ᷠ", "ᷡ", "ᷢ",
     "ᷣ", "ᷤ", "ᷥ", "ᷦ", "ᷧ", "ᷨ", "ᷩ", "ᷪ", "ᷫ", "ᷬ", "ᷭ", "ᷮ", "ᷯ", "ᷰ", "ᷱ", "ᷲ", "ᷳ", "ᷴ", "᷵",
     "᷶", "᷷", "᷸", "᷹", "᷺", "᷻", "᷼", "᷽", "᷾", "᷿", "᾽", "᾿", "῀", "῁", "῍", "῎", "῏", "῝", "῞",
     "῟", "῭", "΅", "`", "´", "῾", "U+200B", "U+200C", "U+200D", "U+200E", "U+200F", "U+2018",
     "U+2019", "U+2024", "U+2027", "U+202A", "U+202B", "U+202C", "U+202D", "U+202E", "U+2060",
     "U+2061", "U+2062", "U+2063", "U+2064", "U+2066", "U+2067", "U+2068", "U+2069", "U+206A",
     "U+206B", "U+206C", "U+206D", "U+206E", "U+206F", "U+2071", "U+207F", "ₐ", "ₑ", "ₒ", "ₓ", "ₔ",
     "ₕ", "ₖ", "ₗ", "ₘ", "ₙ", "ₚ", "ₛ", "ₜ", "⃐", "⃑", "⃒", "⃓", "⃔", "⃕", "⃖", "⃗", "⃘", "⃙", "⃚",
     "⃛", "⃜", "⃝", "⃞", "⃟", "⃠", "⃡", "⃢", "⃣", "⃤", "⃥", "⃦", "⃧", "⃨", "⃩", "⃪", "⃫", "⃬", "⃭",
     "⃮", "⃯", "⃰", "U+2C7C", "U+2C7D", "⳯", "⳰", "⳱", "U+2D6F", "U+2D7F", "ⷠ", "ⷡ", "ⷢ", "ⷣ", "ⷤ",
     "ⷥ", "ⷦ", "ⷧ", "ⷨ", "ⷩ", "ⷪ", "ⷫ", "ⷬ", "ⷭ", "ⷮ", "ⷯ", "ⷰ", "ⷱ", "ⷲ", "ⷳ", "ⷴ", "ⷵ", "ⷶ", "ⷷ",
     "ⷸ", "ⷹ", "ⷺ", "ⷻ", "ⷼ", "ⷽ", "ⷾ", "ⷿ", "U+2E2F", "U+3005", "U+302A", "U+302B", "U+302C",
     "U+302D", "U+3031", "U+3032", "U+3033", "U+3034", "U+3035", "U+303B", "゙", "゚", "゛", "゜", "ゝ",
     "ゞ", "ー", "ヽ", "ヾ", "U+A015", "ꓸ", "ꓹ", "ꓺ", "ꓻ", "ꓼ", "ꓽ", "U+A60C", "U+A66F", "U+A670",
     "U+A671", "U+A672", "U+A674", "U+A675", "U+A676", "U+A677", "U+A678", "U+A679", "U+A67A",
     "U+A67B", "U+A67C", "U+A67D", "U+A67F", "ꚜ", "ꚝ", "ꚞ", "ꚟ", "꛰", "꛱", "U+A700", "U+A701",
     "U+A702", "U+A703", "U+A704", "U+A705", "U+A706", "U+A707", "U+A708", "U+A709", "U+A70A",
     "U+A70B", "U+A70C", "U+A70D", "U+A70E", "U+A70F", "U+A710", "U+A711", "U+A712", "U+A713",
     "U+A714", "U+A715", "U+A716", "U+A717", "U+A718", "U+A719", "U+A71A", "U+A71B", "U+A71C",
     "U+A71D", "U+A71E", "U+A71F", "U+A720", "U+A721", "U+A770", "ꞈ", "꞉", "꞊", "ꟲ", "ꟳ", "ꟴ", "ꟸ",
     "ꟹ", "U+A802", "U+A806", "U+A80B", "U+A825", "U+A826", "U+A82C", "꣄", "ꣅ", "꣠", "꣡", "꣢", "꣣",
     "꣤", "꣥", "꣦", "꣧", "꣨", "꣩", "꣪", "꣫", "꣬", "꣭", "꣮", "꣯", "꣰", "꣱", "ꣿ", "U+A926", "U+A927",
     "U+A928", "U+A929", "U+A92A", "U+A92B", "U+A92C", "U+A92D", "U+A947", "U+A948", "U+A949",
     "U+A94A", "U+A94B", "U+A94C", "U+A94D", "U+A94E", "U+A94F", "U+A950", "U+A951", "ꦀ", "ꦁ", "ꦂ",
     "꦳", "ꦶ", "ꦷ", "ꦸ", "ꦹ", "ꦼ", "ꦽ", "ꧏ", "ꧥ", "ꧦ", "U+AA29", "U+AA2A", "U+AA2B", "U+AA2C",
     "U+AA2D", "U+AA2E", "U+AA31", "U+AA32", "U+AA35", "U+AA36", "U+AA43", "U+AA4C", "U+AA70",
     "U+AA7C", "ꪰ", "ꪲ", "ꪳ", "ꪴ", "ꪷ", "ꪸ", "ꪾ", "꪿", "꫁", "ꫝ", "ꫬ", "ꫭ", "ꫳ", "ꫴ", "꫶", "U+AB5B",
     "U+AB5C", "U+AB5D", "U+AB5E", "U+AB5F", "U+AB69", "U+AB6A", "U+AB6B", "ꯥ", "ꯨ", "꯭", "U+FB1E",
     "﮲", "﮳", "﮴", "﮵", "﮶", "﮷", "﮸", "﮹", "﮺", "﮻", "﮼", "﮽", "﮾", "﮿", "﯀", "﯁", "﯂", "U+FE00",
     "U+FE01", "U+FE02", "U+FE03", "U+FE04", "U+FE05", "U+FE06", "U+FE07", "U+FE08", "U+FE09",
     "U+FE0A", "U+FE0B", "U+FE0C", "U+FE0D", "U+FE0E", "U+FE0F", "U+FE13", "U+FE20", "U+FE21",
     "U+FE22", "U+FE23", "U+FE24", "U+FE25", "U+FE26", "U+FE27", "U+FE28", "U+FE29", "U+FE2A",
     "U+FE2B", "U+FE2C", "U+FE2D", "U+FE2E", "U+FE2F", "U+FE52", "U+FE55", "﻿", "U+FF07", "U+FF0E",
     "U+FF1A", "U+FF3E", "U+FF40", "U+FF70", "ﾞ", "ﾟ", "￣", "￹", "￺", "￻", "U+101FD", "U+102E0",
     "U+10376", "U+10377", "U+10378", "U+10379", "U+1037A", "U+10780", "U+10781", "U+10782",
     "U+10783", "U+10784", "U+10785", "U+10787", "U+10788", "U+10789", "U+1078A", "U+1078B",
     "U+1078C", "U+1078D", "U+1078E", "U+1078F", "U+10790", "U+10791", "U+10792", "U+10793",
     "U+10794", "U+10795", "U+10796", "U+10797", "U+10798", "U+10799", "U+1079A", "U+1079B",
     "U+1079C", "U+1079D", "U+1079E", "U+1079F", "U+107A0", "U+107A1", "U+107A2", "U+107A3",
     "U+107A4", "U+107A5", "U+107A6", "U+107A7", "U+107A8", "U+107A9", "U+107AA", "U+107AB",
     "U+107AC", "U+107AD", "U+107AE", "U+107AF", "U+107B0", "U+107B2", "U+107B3", "U+107B4",
     "U+107B5", "U+107B6", "U+107B7", "U+107B8", "U+107B9", "U+107BA", "U+10A01", "U+10A02",
     "U+10A03", "U+10A05", "U+10A06", "U+10A0C", "U+10A0D", "U+10A0E", "U+10A0F", "U+10A38",
     "U+10A39", "U+10A3A", "U+10A3F", "U+10AE5", "U+10AE6", "U+10D24", "U+10D25", "U+10D26",
     "U+10D27", "U+10EAB", "U+10EAC", "U+10F46", "U+10F47", "U+10F48", "U+10F49", "U+10F4A",
     "U+10F4B", "U+10F4C", "U+10F4D", "U+10F4E", "U+10F4F", "U+10F50", "U+10F82", "U+10F83",
     "U+10F84", "U+10F85", "U+11001", "U+11038", "U+11039", "U+1103A", "U+1103B", "U+1103C",
     "U+1103D", "U+1103E", "U+1103F", "U+11040", "U+11041", "U+11042", "U+11043", "U+11044",
     "U+11045", "U+11046", "U+11070", "U+11073", "U+11074", "U+1107F", "U+11080", "U+11081",
     "U+110B3", "U+110B4", "U+110B5", "U+110B6", "U+110B9", "U+110BA", "U+110BD", "U+110C2",
     "U+110CD", "U+11100", "U+11101", "U+11102", "U+11127", "U+11128", "U+11129", "U+1112A",
     "U+1112B", "U+1112D", "U+1112E", "U+1112F", "U+11130", "U+11131", "U+11132", "U+11133",
     "U+11134", "U+11173", "U+11180", "U+11181", "U+111B6", "U+111B7", "U+111B8", "U+111B9",
     "U+111BA", "U+111BB", "U+111BC", "U+111BD", "U+111BE", "U+111C9", "U+111CA", "U+111CB",
     "U+111CC", "U+111CF", "U+1122F", "U+11230", "U+11231", "U+11234", "U+11236", "U+11237",
     "U+1123E", "U+112DF", "U+112E3", "U+112E4", "U+112E5", "U+112E6", "U+112E7", "U+112E8",
     "U+112E9", "U+112EA", "U+11300", "U+11301", "U+1133B", "U+1133C", "U+11340", "U+11366",
     "U+11367", "U+11368", "U+11369", "U+1136A", "U+1136B", "U+1136C", "U+11370", "U+11371",
     "U+11372", "U+11373", "U+11374", "U+11438", "U+11439", "U+1143A", "U+1143B", "U+1143C",
     "U+1143D", "U+1143E", "U+1143F", "U+11442", "U+11443", "U+11444", "U+11446", "U+1145E",
     "U+114B3", "U+114B4", "U+114B5", "U+114B6", "U+114B7", "U+114B8", "U+114BA", "U+114BF",
     "U+114C0", "U+114C2", "U+114C3", "U+115B2", "U+115B3", "U+115B4", "U+115B5", "U+115BC",
     "U+115BD", "U+115BF", "U+115C0", "U+115DC", "U+115DD", "U+11633", "U+11634", "U+11635",
     "U+11636", "U+11637", "U+11638", "U+11639", "U+1163A", "U+1163D", "U+1163F", "U+11640",
     "U+116AB", "U+116AD", "U+116B0", "U+116B1", "U+116B2", "U+116B3", "U+116B4", "U+116B5",
     "U+116B7", "U+1171D", "U+1171E", "U+1171F", "U+11722", "U+11723", "U+11724", "U+11725",
     "U+11727", "U+11728", "U+11729", "U+1172A", "U+1172B", "U+1182F", "U+11830", "U+11831",
     "U+11832", "U+11833", "U+11834", "U+11835", "U+11836", "U+11837", "U+11839", "U+1183A",
     "U+1193B", "U+1193C", "U+1193E", "U+11943", "U+119D4", "U+119D5", "U+119D6", "U+119D7",
     "U+119DA", "U+119DB", "U+119E0", "U+11A01", "U+11A02", "U+11A03", "U+11A04", "U+11A05",
     "U+11A06", "U+11A07", "U+11A08", "U+11A09", "U+11A0A", "U+11A33", "U+11A34", "U+11A35",
     "U+11A36", "U+11A37", "U+11A38", "U+11A3B", "U+11A3C", "U+11A3D", "U+11A3E", "U+11A47",
     "U+11A51", "U+11A52", "U+11A53", "U+11A54", "U+11A55", "U+11A56", "U+11A59", "U+11A5A",
     "U+11A5B", "U+11A8A", "U+11A8B", "U+11A8C", "U+11A8D", "U+11A8E", "U+11A8F", "U+11A90",
     "U+11A91", "U+11A92", "U+11A93", "U+11A94", "U+11A95", "U+11A96", "U+11A98", "U+11A99",
     "U+11C30", "U+11C31", "U+11C32", "U+11C33", "U+11C34", "U+11C35", "U+11C36", "U+11C38",
     "U+11C39", "U+11C3A", "U+11C3B", "U+11C3C", "U+11C3D", "U+11C3F", "U+11C92", "U+11C93",
     "U+11C94", "U+11C95", "U+11C96", "U+11C97", "U+11C98", "U+11C99", "U+11C9A", "U+11C9B",
     "U+11C9C", "U+11C9D", "U+11C9E", "U+11C9F", "U+11CA0", "U+11CA1", "U+11CA2", "U+11CA3",
     "U+11CA4", "U+11CA5", "U+11CA6", "U+11CA7", "U+11CAA", "U+11CAB", "U+11CAC", "U+11CAD",
     "U+11CAE", "U+11CAF", "U+11CB0", "U+11CB2", "U+11CB3", "U+11CB5", "U+11CB6", "U+11D31",
     "U+11D32", "U+11D33", "U+11D34", "U+11D35", "U+11D36", "U+11D3A", "U+11D3C", "U+11D3D",
     "U+11D3F", "U+11D40", "U+11D41", "U+11D42", "U+11D43", "U+11D44", "U+11D45", "U+11D47",
     "U+11D90", "U+11D91", "U+11D95", "U+11D97", "U+11EF3", "U+11EF4", "U+13430", "U+13431",
     "U+13432", "U+13433", "U+13434", "U+13435", "U+13436", "U+13437", "U+13438", "U+16AF0",
     "U+16AF1", "U+16AF2", "U+16AF3", "U+16AF4", "U+16B30", "U+16B31", "U+16B32", "U+16B33",
     "U+16B34", "U+16B35", "U+16B36", "U+16B40", "U+16B41", "U+16B42", "U+16B43", "U+16F4F",
     "U+16F8F", "U+16F90", "U+16F91", "U+16F92", "U+16F93", "U+16F94", "U+16F95", "U+16F96",
     "U+16F97", "U+16F98", "U+16F99", "U+16F9A", "U+16F9B", "U+16F9C", "U+16F9D", "U+16F9E",
     "U+16F9F", "U+16FE0", "U+16FE1", "U+16FE3", "U+16FE4", "U+1AFF0", "U+1AFF1", "U+1AFF2",
     "U+1AFF3", "U+1AFF5", "U+1AFF6", "U+1AFF7", "U+1AFF8", "U+1AFF9", "U+1AFFA", "U+1AFFB",
     "U+1AFFD", "U+1AFFE", "U+1BC9D", "U+1BC9E", "U+1BCA0", "U+1BCA1", "U+1BCA2", "U+1BCA3",
     "U+1CF00", "U+1CF01", "U+1CF02", "U+1CF03", "U+1CF04", "U+1CF05", "U+1CF06", "U+1CF07",
     "U+1CF08", "U+1CF09", "U+1CF0A", "U+1CF0B", "U+1CF0C", "U+1CF0D", "U+1CF0E", "U+1CF0F",
     "U+1CF10", "U+1CF11", "U+1CF12", "U+1CF13", "U+1CF14", "U+1CF15", "U+1CF16", "U+1CF17",
     "U+1CF18", "U+1CF19", "U+1CF1A", "U+1CF1B", "U+1CF1C", "U+1CF1D", "U+1CF1E", "U+1CF1F",
     "U+1CF20", "U+1CF21", "U+1CF22", "U+1CF23", "U+1CF24", "U+1CF25", "U+1CF26", "U+1CF27",
     "U+1CF28", "U+1CF29", "U+1CF2A", "U+1CF2B", "U+1CF2C", "U+1CF2D", "U+1CF30", "U+1CF31",
     "U+1CF32", "U+1CF33", "U+1CF34", "U+1CF35", "U+1CF36", "U+1CF37", "U+1CF38", "U+1CF39",
     "U+1CF3A", "U+1CF3B", "U+1CF3C", "U+1CF3D", "U+1CF3E", "U+1CF3F", "U+1CF40", "U+1CF41",
     "U+1CF42", "U+1CF43", "U+1CF44", "U+1CF45", "U+1CF46", "U+1D167", "U+1D168", "U+1D169",
     "U+1D173", "U+1D174", "U+1D175", "U+1D176", "U+1D177", "U+1D178", "U+1D179", "U+1D17A",
     "U+1D17B", "U+1D17C", "U+1D17D", "U+1D17E", "U+1D17F", "U+1D180", "U+1D181", "U+1D182",
     "U+1D185", "U+1D186", "U+1D187", "U+1D188", "U+1D189", "U+1D18A", "U+1D18B", "U+1D1AA",
     "U+1D1AB", "U+1D1AC", "U+1D1AD", "U+1D242", "U+1D243", "U+1D244", "U+1DA00", "U+1DA01",
     "U+1DA02", "U+1DA03", "U+1DA04", "U+1DA05", "U+1DA06", "U+1DA07", "U+1DA08", "U+1DA09",
     "U+1DA0A", "U+1DA0B", "U+1DA0C", "U+1DA0D", "U+1DA0E", "U+1DA0F", "U+1DA10", "U+1DA11",
     "U+1DA12", "U+1DA13", "U+1DA14", "U+1DA15", "U+1DA16", "U+1DA17", "U+1DA18", "U+1DA19",
     "U+1DA1A", "U+1DA1B", "U+1DA1C", "U+1DA1D", "U+1DA1E", "U+1DA1F", "U+1DA20", "U+1DA21",
     "U+1DA22", "U+1DA23", "U+1DA24", "U+1DA25", "U+1DA26", "U+1DA27", "U+1DA28", "U+1DA29",
     "U+1DA2A", "U+1DA2B", "U+1DA2C", "U+1DA2D", "U+1DA2E", "U+1DA2F", "U+1DA30", "U+1DA31",
     "U+1DA32", "U+1DA33", "U+1DA34", "U+1DA35", "U+1DA36", "U+1DA3B", "U+1DA3C", "U+1DA3D",
     "U+1DA3E", "U+1DA3F", "U+1DA40", "U+1DA41", "U+1DA42", "U+1DA43", "U+1DA44", "U+1DA45",
     "U+1DA46", "U+1DA47", "U+1DA48", "U+1DA49", "U+1DA4A", "U+1DA4B", "U+1DA4C", "U+1DA4D",
     "U+1DA4E", "U+1DA4F", "U+1DA50", "U+1DA51", "U+1DA52", "U+1DA53", "U+1DA54", "U+1DA55",
     "U+1DA56", "U+1DA57", "U+1DA58", "U+1DA59", "U+1DA5A", "U+1DA5B", "U+1DA5C", "U+1DA5D",
     "U+1DA5E", "U+1DA5F", "U+1DA60", "U+1DA61", "U+1DA62", "U+1DA63", "U+1DA64", "U+1DA65",
     "U+1DA66", "U+1DA67", "U+1DA68", "U+1DA69", "U+1DA6A", "U+1DA6B", "U+1DA6C", "U+1DA75",
     "U+1DA84", "U+1DA9B", "U+1DA9C", "U+1DA9D", "U+1DA9E", "U+1DA9F", "U+1DAA1", "U+1DAA2",
     "U+1DAA3", "U+1DAA4", "U+1DAA5", "U+1DAA6", "U+1DAA7", "U+1DAA8", "U+1DAA9", "U+1DAAA",
     "U+1DAAB", "U+1DAAC", "U+1DAAD", "U+1DAAE", "U+1DAAF", "U+1E000", "U+1E001", "U+1E002",
     "U+1E003", "U+1E004", "U+1E005", "U+1E006", "U+1E008", "U+1E009", "U+1E00A", "U+1E00B",
     "U+1E00C", "U+1E00D", "U+1E00E", "U+1E00F", "U+1E010", "U+1E011", "U+1E012", "U+1E013",
     "U+1E014", "U+1E015", "U+1E016", "U+1E017", "U+1E018", "U+1E01B", "U+1E01C", "U+1E01D",
     "U+1E01E", "U+1E01F", "U+1E020", "U+1E021", "U+1E023", "U+1E024", "U+1E026", "U+1E027",
     "U+1E028", "U+1E029", "U+1E02A", "U+1E130", "U+1E131", "U+1E132", "U+1E133", "U+1E134",
     "U+1E135", "U+1E136", "U+1E137", "U+1E138", "U+1E139", "U+1E13A", "U+1E13B", "U+1E13C",
     "U+1E13D", "U+1E2AE", "U+1E2EC", "U+1E2ED", "U+1E2EE", "U+1E2EF", "U+1E8D0", "U+1E8D1",
     "U+1E8D2", "U+1E8D3", "U+1E8D4", "U+1E8D5", "U+1E8D6", "U+1E944", "U+1E945", "U+1E946",
     "U+1E947", "U+1E948", "U+1E949", "U+1E94A", "U+1E94B", "U+1F3FB", "U+1F3FC", "U+1F3FD",
     "U+1F3FE", "U+1F3FF", "U+E0001", "U+E0020", "U+E0021", "U+E0022", "U+E0023", "U+E0024",
     "U+E0025", "U+E0026", "U+E0027", "U+E0028", "U+E0029", "U+E002A", "U+E002B", "U+E002C",
     "U+E002D", "U+E002E", "U+E002F", "U+E0030", "U+E0031", "U+E0032", "U+E0033", "U+E0034",
     "U+E0035", "U+E0036", "U+E0037", "U+E0038", "U+E0039", "U+E003A", "U+E003B", "U+E003C",
     "U+E003D", "U+E003E", "U+E003F", "U+E0040", "U+E0041", "U+E0042", "U+E0043", "U+E0044",
     "U+E0045", "U+E0046", "U+E0047", "U+E0048", "U+E0049", "U+E004A", "U+E004B", "U+E004C",
     "U+E004D", "U+E004E", "U+E004F", "U+E0050", "U+E0051", "U+E0052", "U+E0053", "U+E0054",
     "U+E0055", "U+E0056", "U+E0057", "U+E0058", "U+E0059", "U+E005A", "U+E005B", "U+E005C",
     "U+E005D", "U+E005E", "U+E005F", "U+E0060", "U+E0061", "U+E0062", "U+E0063", "U+E0064",
     "U+E0065", "U+E0066", "U+E0067", "U+E0068", "U+E0069", "U+E006A", "U+E006B", "U+E006C",
     "U+E006D", "U+E006E", "U+E006F", "U+E0070", "U+E0071", "U+E0072", "U+E0073", "U+E0074",
     "U+E0075", "U+E0076", "U+E0077", "U+E0078", "U+E0079", "U+E007A", "U+E007B", "U+E007C",
     "U+E007D", "U+E007E", "U+E007F", "U+E0100", "U+E0101", "U+E0102", "U+E0103", "U+E0104",
     "U+E0105", "U+E0106", "U+E0107", "U+E0108", "U+E0109", "U+E010A", "U+E010B", "U+E010C",
     "U+E010D", "U+E010E", "U+E010F", "U+E0110", "U+E0111", "U+E0112", "U+E0113", "U+E0114",
     "U+E0115", "U+E0116", "U+E0117", "U+E0118", "U+E0119", "U+E011A", "U+E011B", "U+E011C",
     "U+E011D", "U+E011E", "U+E011F", "U+E0120", "U+E0121", "U+E0122", "U+E0123", "U+E0124",
     "U+E0125", "U+E0126", "U+E0127", "U+E0128", "U+E0129", "U+E012A", "U+E012B", "U+E012C",
     "U+E012D", "U+E012E", "U+E012F", "U+E0130", "U+E0131", "U+E0132", "U+E0133", "U+E0134",
     "U+E0135", "U+E0136", "U+E0137", "U+E0138", "U+E0139", "U+E013A", "U+E013B", "U+E013C",
     "U+E013D", "U+E013E", "U+E013F", "U+E0140", "U+E0141", "U+E0142", "U+E0143", "U+E0144",
     "U+E0145", "U+E0146", "U+E0147", "U+E0148", "U+E0149", "U+E014A", "U+E014B", "U+E014C",
     "U+E014D", "U+E014E", "U+E014F", "U+E0150", "U+E0151", "U+E0152", "U+E0153", "U+E0154",
     "U+E0155", "U+E0156", "U+E0157", "U+E0158", "U+E0159", "U+E015A", "U+E015B", "U+E015C",
     "U+E015D", "U+E015E", "U+E015F", "U+E0160", "U+E0161", "U+E0162", "U+E0163", "U+E0164",
     "U+E0165", "U+E0166", "U+E0167", "U+E0168", "U+E0169", "U+E016A", "U+E016B", "U+E016C",
     "U+E016D", "U+E016E", "U+E016F", "U+E0170", "U+E0171", "U+E0172", "U+E0173", "U+E0174",
     "U+E0175", "U+E0176", "U+E0177", "U+E0178", "U+E0179", "U+E017A", "U+E017B", "U+E017C",
     "U+E017D", "U+E017E", "U+E017F", "U+E0180", "U+E0181", "U+E0182", "U+E0183", "U+E0184",
     "U+E0185", "U+E0186", "U+E0187", "U+E0188", "U+E0189", "U+E018A", "U+E018B", "U+E018C",
     "U+E018D", "U+E018E", "U+E018F", "U+E0190", "U+E0191", "U+E0192", "U+E0193", "U+E0194",
     "U+E0195", "U+E0196", "U+E0197", "U+E0198", "U+E0199", "U+E019A", "U+E019B", "U+E019C",
     "U+E019D", "U+E019E", "U+E019F", "U+E01A0", "U+E01A1", "U+E01A2", "U+E01A3", "U+E01A4",
     "U+E01A5", "U+E01A6", "U+E01A7", "U+E01A8", "U+E01A9", "U+E01AA", "U+E01AB", "U+E01AC",
     "U+E01AD", "U+E01AE", "U+E01AF", "U+E01B0", "U+E01B1", "U+E01B2", "U+E01B3", "U+E01B4",
     "U+E01B5", "U+E01B6", "U+E01B7", "U+E01B8", "U+E01B9", "U+E01BA", "U+E01BB", "U+E01BC",
     "U+E01BD", "U+E01BE", "U+E01BF", "U+E01C0", "U+E01C1", "U+E01C2", "U+E01C3", "U+E01C4",
     "U+E01C5", "U+E01C6", "U+E01C7", "U+E01C8", "U+E01C9", "U+E01CA", "U+E01CB", "U+E01CC",
     "U+E01CD", "U+E01CE", "U+E01CF", "U+E01D0", "U+E01D1", "U+E01D2", "U+E01D3", "U+E01D4",
     "U+E01D5", "U+E01D6", "U+E01D7", "U+E01D8", "U+E01D9", "U+E01DA", "U+E01DB", "U+E01DC",
     "U+E01DD", "U+E01DE", "U+E01DF", "U+E01E0", "U+E01E1", "U+E01E2", "U+E01E3", "U+E01E4",
     "U+E01E5", "U+E01E6", "U+E01E7", "U+E01E8", "U+E01E9", "U+E01EA", "U+E01EB", "U+E01EC",
     "U+E01ED", "U+E01EE", "U+E01EF"
    }

Sigma == "Σ"                    \* U+03A3
FinalSmallSigma == "ς"          \* U+03C2
CapitalIDot == "U+0130"         \* U+0130, whose lowercase is two characters
SmallIDot == <<"i", "U+0307">>

\* str.lower() of one character whose lowercase is one character
LowerChar(c) ==
    IF \E i \in 1..26 : UpperCase[i] = c
    THEN LowerCase[CHOOSE i \in 1..26 : UpperCase[i] = c]
    ELSE IF \E i \in 1..26 : LowerCase[i] = c
    THEN c
    ELSE IF c \in UpperUnicodeSet
    THEN LowerUnicode[CHOOSE i \in 1..Len(UpperUnicode) : UpperUnicode[i] = c]
    ELSE c

\* the capital sigma at s[i] ends a word: a cased character before it and
\* none after it, the case-ignorable characters skipped
FinalSigma(s, i) ==
    /\ \E j \in 1..(i - 1) :
          s[j] \in Cased /\ \A k \in (j + 1)..(i - 1) : s[k] \in CaseIgnorable
    /\ ~\E j \in (i + 1)..Len(s) :
          s[j] \in Cased /\ \A k \in (i + 1)..(j - 1) : s[k] \in CaseIgnorable

LowerAt(s, i) ==
    IF s[i] = CapitalIDot THEN SmallIDot
    ELSE IF s[i] = Sigma /\ FinalSigma(s, i) THEN <<FinalSmallSigma>>
    ELSE <<LowerChar(s[i])>>

RECURSIVE LowerFrom(_, _)
LowerFrom(s, i) == IF i > Len(s) THEN <<>> ELSE LowerAt(s, i) \o LowerFrom(s, i + 1)

\* str.lower()
Lower(s) ==
    IF \A i \in 1..Len(s) : s[i] \notin {Sigma, CapitalIDot}
    THEN [i \in 1..Len(s) |-> LowerChar(s[i])]
    ELSE LowerFrom(s, 1)

\* str.replace('"', '')
RemoveQuotes(s) == SelectSeq(s, LAMBDA c : c # "\"")

\* str.strip()
RECURSIVE LStrip(_)
LStrip(s) == IF s # <<>> /\ Head(s) \in Whitespace THEN LStrip(Tail(s)) ELSE s
RECURSIVE RStrip(_)
RStrip(s) ==
    IF s # <<>> /\ s[Len(s)] \in Whitespace THEN RStrip(SubSeq(s, 1, Len(s) - 1)) ELSE s
Strip(s) == RStrip(LStrip(s))

\* sub in s
Contains(s, sub) ==
    \E i \in 1..(Len(s) - Len(sub) + 1) : SubSeq(s, i, i + Len(sub) - 1) = sub

Air == <<"a", "i", "r">>

\* str(safe_get(it, 'id') or "").lower().replace('"', '').strip()
ItemId(it) == Strip(RemoveQuotes(Lower(it.id)))

\* int(safe_get(it, 'count') or 1): [ok, v]
ItemCount(it) == IF Truthy(it.count) THEN int(it.count) ELSE [ok |-> TRUE, v |-> 1]

\* (a variant that takes a falsy Slot, 0 included, for an absent one)
ItemSlotOr(it, i) == IF Truthy(it.Slot) THEN int(it.Slot) ELSE [ok |-> TRUE, v |-> i]

\* int(safe_get(it, 'Slot') if safe_get(it, 'Slot') is not None else i): [ok, v]
ItemSlot(it, i) == IF it.Slot.k # "none" THEN int(it.Slot) ELSE [ok |-> TRUE, v |-> i]

\* (a variant that drops only the empty id)
ItemKeptNonEmpty(iid) == iid # <<>>

\* if iid and "air" not in iid
ItemKept(iid) == iid # <<>> /\ ~Contains(iid, Air)

\* the loop `for i, it in enumerate(iter_nbt_list(items))` from position j
\* (i = j - 1): [ok, inv]; ok = FALSE when int() raised
RECURSIVE InventoryMap(_, _, _)
InventoryMap(items, j, inv) ==
    IF j > Len(items) THEN [ok |-> TRUE, inv |-> inv]
    ELSE LET it == items[j]
             iid == ItemId(it)
             cnt == ItemCount(it)
             slot == ItemSlot(it, j - 1)
         IN  IF ~cnt.ok \/ ~slot.ok THEN [ok |-> FALSE, inv |-> inv]
             ELSE InventoryMap(items, j + 1,
                               IF ItemKept(iid)
                               THEN Put(inv, slot.v, [id |-> iid, count |-> cnt.v])
                               ELSE inv)

\* the loop over the upgrade items: [ok, list]
RECURSIVE UpgradeList(_, _, _)
UpgradeList(upgs, j, list) ==
    IF j > Len(upgs) THEN [ok |-> TRUE, list |-> list]
    ELSE LET iid == ItemId(upgs[j])
             cnt == ItemCount(upgs[j])
         IN  IF ~cnt.ok THEN [ok |-> FALSE, list |-> list]
             ELSE UpgradeList(upgs, j + 1,
                              IF iid # <<>> THEN Append(list, <<iid, cnt.v>>) ELSE list)

NoRecord ==
    [type |-> "none", backpackUuid |-> <<>>, playerName |-> "", accessTimeRaw |-> PyNone,
     inventory |-> EmptyDict, upgrades |-> <<>>, id |-> ""]

\* the body of the loop over backpackContents: [ok, rec]; ok = FALSE when the
\* entry is skipped (`if not uuid: continue`, or an exception: `continue`)
NormalizeBackpack(bc, owner_index) ==
    LET uuid == uuid_from_int_list(ArgOr(bc.uuid, bc.backpackUuid))
        inv == InventoryMap(bc.Items, 1, EmptyDict)
        upg == UpgradeList(bc.Upgrades, 1, <<>>)
    IN  IF uuid.tag # "str" THEN [ok |-> FALSE, rec |-> NoRecord]
        ELSE IF ~inv.ok \/ ~upg.ok THEN [ok |-> FALSE, rec |-> NoRecord]
        ELSE [ok |-> TRUE,
              rec |-> [type |-> "backpack",
                       backpackUuid |-> uuid.s,
                       playerName |-> IF uuid.s \in DOMAIN owner_index
                                      THEN owner_index[uuid.s].playerName ELSE "Unknown",
                       accessTimeRaw |-> IF uuid.s \in DOMAIN owner_index
                                         THEN owner_index[uuid.s].accessTime ELSE PyNone,
                       inventory |-> inv.inv,
                       upgrades |-> upg.list,
                       id |-> "sophisticatedbackpacks:backpack"]]

Stone == <<"s", "t", "o", "n", "e">>
ModStone == <<"m", "o", "d", ":">> \o Stone
IdSamples ==
    {Stone, <<"\r", "\"", "É", "i", "r", "t", "\"", " ">>, <<"m", ":", "a", "i", "r">>, <<"A", "\"", "I", "R">>, <<" ">>, <<>>}

\* every id, every count, and an explicit Slot on a stored and on a dropped item
ItemSamples ==
    [id : IdSamples, count : {PyInt(3)}, Slot : {PyNone}]
      \cup [id : {Stone}, count : {PyNone, BadStr}, Slot : {PyNone}]
      \cup [id : {Stone, <<"A", "\"", "I", "R">>}, count : {PyInt(3)}, Slot : {PyInt(0)}]

GoodItem == [id |-> Stone, count |-> PyInt(3), Slot |-> PyNone]

BadCount == [GoodItem EXCEPT !.count = BadStr]

\* entries for the lists of several entries: every kind of uuid field, and
\* contents that normalise, or raise in the inventory, or raise in the upgrades
EntrySamples ==
    {[uuid |-> u, backpackUuid |-> ArgList(U2), Items |-> c[1], Upgrades |-> c[2]] :
        u \in {ArgList(U1), ArgList(Bad3), ArgNone},
        c \in {<<<<GoodItem>>, <<>>>>, <<<<BadCount>>, <<>>>>, <<<<GoodItem>>, <<BadCount>>>>}}

\* single entries with every inventory of at most n items
ItemEntries(n) ==
    [uuid : {ArgList(U1)}, backpackUuid : {ArgNone},
     Items : SeqsUpTo(ItemSamples, n), Upgrades : {<<GoodItem>>}]

OwnerLogSamples ==
    {<<>>, <<[backpackUuid |-> ArgList(U1), uuid |-> ArgNone, playerName |-> "A",
              player |-> "", accessTime |-> PyInt(5), lastAccess |-> PyNone]>>}

ParseInit ==
    /\ \/ contents_list \in SeqsUpTo(EntrySamples, MaxEntries)
       \/ contents_list \in {<<e>> : e \in ItemEntries(MaxItems)}
    /\ owner_log \in OwnerLogSamples
    /\ bc_pos = 0
    /\ yielded = <<>>
    /\ parse_pc = "loop"

\* (a variant whose try encloses the whole loop: the first failure ends it)
ParseEntryAbort ==
    /\ parse_pc = "loop"
    /\ bc_pos < Len(contents_list)
    /\ LET r == NormalizeBackpack(contents_list[bc_pos + 1],
                                  build_owner_index_from_access_log(owner_log))
       IN  /\ yielded' = IF r.ok THEN Append(yielded, r.rec) ELSE yielded
           /\ parse_pc' = IF r.ok THEN "loop" ELSE "done"
    /\ bc_pos' = bc_pos + 1
    /\ UNCHANGED <<contents_list, owner_log, codecVars, locateVars, indexVars, mainVars, renderVars>>

\* one iteration of `for bc in iter_nbt_list(contents_list)`
ParseEntry ==
    /\ parse_pc = "loop"
    /\ bc_pos < Len(contents_list)
    /\ LET r == NormalizeBackpack(contents_list[bc_pos + 1],
                                  build_owner_index_from_access_log(owner_log))
       IN  yielded' = IF r.ok THEN Append(yielded, r.rec) ELSE yielded
    /\ bc_pos' = bc_pos + 1
    /\ UNCHANGED <<contents_list, owner_log, parse_pc,
                   codecVars, locateVars, indexVars, mainVars, renderVars>>

\* the generator is exhausted
ParseReturn ==
    /\ parse_pc = "loop"
    /\ bc_pos = Len(contents_list)
    /\ parse_pc' = "done"
    /\ UNCHANGED <<contents_list, owner_log, bc_pos, yielded,
                   codecVars, locateVars, indexVars, mainVars, renderVars>>

(***************************************************************************)
(* Claims about the record normaliser.                                     *)
(***************************************************************************)
OwnerIndex == build_owner_index_from_access_log(owner_log)

\* what the loop body makes of the i-th entry on its own
Norm(i) == NormalizeBackpack(contents_list[i], OwnerIndex)

\* the entries among the first n that normalise without error
Good(n) == {i \in 1..n : Norm(i).ok}

\* the position in the yielded sequence of the record of good entry i
Pos(i) == Cardinality({k \in Good(i) : k <= i})

BcUuid(bc) == uuid_from_int_list(ArgOr(bc.uuid, bc.backpackUuid))

\* the slot an item resolves to: its Slot field, else its index in the list
SlotOf(items, j) == IF items[j].Slot.k = "none" THEN j - 1 ELSE items[j].Slot.n

\* an item the normaliser drops: its id is empty or contains 'air'
AirOrEmpty(it) == ItemId(it) = <<>> \/ Contains(ItemId(it), Air)

\* the last item of the list that is not dropped and resolves to slot s (0: none)
LastAt(items, s) ==
    LET at == {j \in 1..Len(items) : ~AirOrEmpty(items[j]) /\ SlotOf(items, j) = s}
    IN  IF at = {} THEN 0 ELSE CHOOSE j \in at : \A k \in at : k <= j

\* C6: the records yielded are exactly the entries that normalise without
\* error, in source order; an entry with an undecodable uuid, or one that
\* raises, is skipped and changes nothing about the records of the others.
C6_FaultIsolation ==
    parse_pc \in {"loop", "done"} =>
        /\ Len(yielded) = Cardinality(Good(bc_pos))
        /\ \A i \in Good(bc_pos) : yielded[Pos(i)] = Norm(i).rec
        /\ \A i \in 1..bc_pos : BcUuid(contents_list[i]).tag # "str" => i \notin Good(bc_pos)
        /\ (parse_pc = "done" => bc_pos = Len(contents_list))

\* an entry that raises (its uuid decodes, a count does not parse) is followed
\* by an entry that is still yielded
C6_Witness ==
    /\ parse_pc = "done"
    /\ Len(contents_list) = 2
    /\ BcUuid(contents_list[1]).tag = "str" /\ ~Norm(1).ok
    /\ Norm(2).ok
    /\ yielded = <<Norm(2).rec>>

\* C8: an inventory item whose count is absent or does not parse as an integer
\* is still produced, with count 1: neither the item nor its record is lost.
C8_CountDefaultsToOne ==
    parse_pc = "done" =>
        \A i \in 1..Len(contents_list) :
            LET bc == contents_list[i]
                items == bc.Items
            IN  \A j \in 1..Len(items) :
                    (/\ BcUuid(bc).tag = "str"
                     /\ items[j].count.k \in {"none", "badstr"}
                     /\ LastAt(items, SlotOf(items, j)) = j
                     /\ \A k \in 1..Len(items) : k # j => items[k].count.k = "int"
                     /\ \A k \in 1..Len(bc.Upgrades) : bc.Upgrades[k].count.k = "int") =>
                        \E r \in 1..Len(yielded) :
                            /\ yielded[r].backpackUuid = BcUuid(bc).s
                            /\ SlotOf(items, j) \in DOMAIN yielded[r].inventory
                            /\ yielded[r].inventory[SlotOf(items, j)].count = 1

\* C9: in a normalised record an item with a Slot field is stored at that slot
\* and one without at its index in the item list; of the stored items that
\* resolve to one slot, the one processed last is in the inventory map.
C9_SlotResolution ==
    parse_pc \in {"loop", "done"} =>
        \A i \in Good(bc_pos) :
            LET items == contents_list[i].Items
                inv == yielded[Pos(i)].inventory
            IN  \A j \in 1..Len(items) :
                    (~AirOrEmpty(items[j]) /\ LastAt(items, SlotOf(items, j)) = j) =>
                        /\ SlotOf(items, j) \in DOMAIN inv
                        /\ inv[SlotOf(items, j)] =
                             [id |-> ItemId(items[j]),
                              count |-> IF Truthy(items[j].count)
                                        THEN items[j].count.n ELSE 1]

\* an explicit Slot 0 on the second item replaces the first item, stored at
\* its index 0
C9_Witness ==
    /\ parse_pc = "done"
    /\ Len(yielded) = 1
    /\ LET items == contents_list[1].Items
       IN  /\ Len(items) = 2
           /\ items[1].Slot = PyNone /\ items[2].Slot = PyInt(0)
           /\ ~AirOrEmpty(items[1]) /\ ~AirOrEmpty(items[2])
           /\ ItemId(items[1]) # ItemId(items[2])
           /\ DOMAIN yielded[1].inventory = {0}
           /\ yielded[1].inventory[0].id = ItemId(items[2])

\* C10: no entry of an inventory map has an id that is empty or contains
\* 'air'; the dropped items neither occupy a slot nor clear the item an
\* earlier entry stored there.
C10_NoAirInInventory ==
    parse_pc \in {"loop", "done"} =>
        /\ \A r \in 1..Len(yielded) : \A s \in DOMAIN yielded[r].inventory :
              /\ yielded[r].inventory[s].id # <<>>
              /\ ~Contains(yielded[r].inventory[s].id, Air)
        /\ \A i \in Good(bc_pos) :
              LET items == contents_list[i].Items
                  inv == yielded[Pos(i)].inventory
              IN  /\ DOMAIN inv = {SlotOf(items, j) :
                                     j \in {k \in 1..Len(items) : ~AirOrEmpty(items[k])}}
                  /\ \A s \in DOMAIN inv : inv[s].id = ItemId(items[LastAt(items, s)])

\* an air item written with capitals and a quote, at the slot of an earlier
\* stored item, leaves that item in place
C10_Witness ==
    /\ parse_pc = "done"
    /\ Len(yielded) = 1
    /\ LET items == contents_list[1].Items
       IN  /\ Len(items) = 2
           /\ ~AirOrEmpty(items[1])
           /\ AirOrEmpty(items[2]) /\ ~Contains(items[2].id, Air) /\ items[2].id # <<>>
           /\ SlotOf(items, 1) = SlotOf(items, 2)
           /\ DOMAIN yielded[1].inventory = {SlotOf(items, 1)}
           /\ yielded[1].inventory[SlotOf(items, 1)].id = ItemId(items[1])

(***************************************************************************)
(* Container mode: container_infiltrator.normalize_container and the       *)
(* container branch of visualizer.main.                                    *)
(*                                                                         *)
(* A raw container carries its position (x, y, z as one number), its       *)
(* is_dungeon flag and its 'items': a slot-keyed mapping or a list, each   *)
(* element a key (used by the mapping form only) and a value that is an    *)
(* item mapping or not.  A field that is missing from an item is Absent.   *)
(***************************************************************************)
MaxContainers == 2  \* containers of a JSON file
Columns == 9        \* cols = 9
MaxRows == 9        \* if rows > 9: rows = 9

Absent == [k |-> "absent", n |-> 0]

RawItem(id, slot, lower, upper) == [id |-> id, Slot |-> slot, count |-> lower, Count |-> upper]

\* process_item(item_dict, slot_val): [ok, item]; ok = FALSE when it raises
\* (.copy() of a value that is no mapping, int() of a slot that is no integer)
process_item(entry, slot_val) ==
    LET it == entry.item
        slot == IF it.Slot = Absent THEN int(slot_val) ELSE int(it.Slot)
        Count == IF it.count # Absent THEN it.count
                 ELSE IF it.Count = Absent THEN PyInt(1) ELSE it.Count
    IN  IF ~entry.mapping \/ ~slot.ok
        THEN [ok |-> FALSE,
              item |-> [id |-> <<>>, Slot |-> 0, count |-> Absent, Count |-> Absent]]
        ELSE [ok |-> TRUE,
              item |-> [id |-> it.id, Slot |-> slot.v, count |-> it.count, Count |-> Count]]

\* the loop over raw_items from position j, for both forms: [ok, list]
RECURSIVE InventoryList(_, _, _, _)
InventoryList(form, raw_items, j, list) ==
    IF j > Len(raw_items) THEN [ok |-> TRUE, list |-> list]
    ELSE LET e == raw_items[j]
         IN  IF form = "list" /\ ~e.mapping          \* if not isinstance(item_data, dict): continue
             THEN InventoryList(form, raw_items, j + 1, list)
             ELSE LET slot_ref == IF form = "dict" THEN e.key
                                  ELSE IF e.item.Slot = Absent THEN PyInt(j - 1)
                                  ELSE e.item.Slot
                      r == process_item(e, slot_ref)
                  IN  IF ~r.ok THEN [ok |-> FALSE, list |-> list]
                      ELSE InventoryList(form, raw_items, j + 1, Append(list, r.item))

MaxOf(S) == CHOOSE m \in S : \A v \in S : v <= m

\* c.get('id', 'minecraft:chest') of a container that names no id
ChestId == <<"m", "i", "n", "e", "c", "r", "a", "f", "t", ":", "c", "h", "e", "s", "t">>

NoContainer ==
    [type |-> "none", id |-> <<>>, pos |-> 0, is_dungeon |-> FALSE, inventory |-> <<>>,
     columns |-> 0, rows |-> 0]

\* normalize_container(c): [ok, rec]
normalize_container(c) ==
    LET inv == InventoryList(c.form, c.items, 1, <<>>)
        max_slot == IF inv.list = <<>> THEN 0
                    ELSE MaxOf({inv.list[i].Slot : i \in 1..Len(inv.list)})
        rows == (max_slot \div Columns) + 1
    IN  IF ~inv.ok THEN [ok |-> FALSE, rec |-> NoContainer]
        ELSE [ok |-> TRUE,
              rec |-> [type |-> "container", id |-> ChestId, pos |-> c.pos,
                       is_dungeon |-> c.is_dungeon,
                       inventory |-> inv.list,
                       columns |-> Columns,
                       rows |-> IF rows > MaxRows THEN MaxRows ELSE rows]]

\* inv_dict[item.get('Slot')] = item, over the inventory list from position j
RECURSIVE SlotMap(_, _, _)
SlotMap(list, j, inv_dict) ==
    IF j > Len(list) THEN inv_dict
    ELSE SlotMap(list, j + 1, Put(inv_dict, list[j].Slot, list[j]))

\* visualizer.matches_filter for a container, with no --ctype, --nbt, --item,
\* --owner, --upgrade and no query given
matches_filter(data, a) == ~(a.nodungeon /\ data.is_dungeon)

GoodEntry == [key |-> NumStr(0), mapping |-> TRUE, item |-> RawItem(Stone, Absent, Absent, Absent)]
DeepEntry == [key |-> NumStr(3), mapping |-> TRUE, item |-> RawItem(ModStone, PyInt(85), PyInt(5), PyInt(7))]
BadKeyEntry == [key |-> BadStr, mapping |-> TRUE, item |-> RawItem(Stone, Absent, Absent, PyInt(2))]
NoMappingEntry == [key |-> NumStr(1), mapping |-> FALSE, item |-> RawItem(Stone, Absent, Absent, Absent)]
BadSlotEntry == [key |-> NumStr(2), mapping |-> TRUE, item |-> RawItem(Stone, BadStr, Absent, Absent)]

StrCountEntry == [key |-> NumStr(4), mapping |-> TRUE, item |-> RawItem(ModStone, Absent, NumStr(5), Absent)]

Container(form, items, is_dungeon, pos) ==
    [pos |-> pos, form |-> form, is_dungeon |-> is_dungeon, items |-> items]

\* containers of both forms, well-formed and malformed, some at one position
ContainerSamples ==
    {Container("list", <<GoodEntry, DeepEntry>>, FALSE, 1),
     Container("list", <<BadKeyEntry>>, FALSE, 1),
     Container("list", <<NoMappingEntry, GoodEntry>>, FALSE, 1),
     Container("dict", <<BadKeyEntry>>, FALSE, 1),
     Container("list", <<>>, TRUE, 1),
     Container("list", <<StrCountEntry>>, FALSE, 2),
     Container("dict", <<GoodEntry>>, FALSE, 2),
     Container("dict", <<NoMappingEntry, GoodEntry>>, FALSE, 2),
     Container("list", <<GoodEntry, BadSlotEntry>>, FALSE, 2),
     Container("list", <<GoodEntry>>, TRUE, 2)}

\* the JSON list of a container file
Containers(n) == SeqsUpTo(ContainerSamples, n)

(***************************************************************************)
(* Rendering: image_generator.load_resources, generate_backpack_image and  *)
(* save_img.  An image is its number of slot rows and, for each displayed  *)
(* slot that holds an item, the count read and whether a label is drawn.   *)
(***************************************************************************)
GRID_COLS == 9

\* count > 1: [ok, v]; comparing a string with 1 raises TypeError
GreaterThanOne(e) ==
    CASE e.k = "int" -> [ok |-> TRUE, v |-> e.n > 1]
      [] e.k = "float" -> [ok |-> TRUE, v |-> e.n >= 1]
      [] OTHER -> [ok |-> FALSE, v |-> FALSE]

\* num_rows of the inventory grid
NumRows(inv) ==
    LET max_slot == IF DOMAIN inv = {} THEN -1 ELSE MaxOf(DOMAIN inv)
        num_rows == (max_slot \div GRID_COLS) + 1
    IN  IF num_rows < 1 THEN 1 ELSE num_rows

\* item.get('count', 1)
CountRead(item) == IF item.count = Absent THEN PyInt(1) ELSE item.count

NoImage == [num_rows |-> 0, cells |-> EmptyDict]

\* generate_backpack_image(data, main_icon_id) for a container: [ok, img]
generate_backpack_image(data) ==
    LET inv == data.inventory
        num_rows == NumRows(inv)
        shown == {slot_idx \in 0..(num_rows * GRID_COLS - 1) : slot_idx \in DOMAIN inv}
    IN  IF \E slot_idx \in shown : ~GreaterThanOne(CountRead(inv[slot_idx])).ok
        THEN [ok |-> FALSE, img |-> NoImage]
        ELSE [ok |-> TRUE,
              img |-> [num_rows |-> num_rows,
                       cells |-> [slot_idx \in shown |->
                                     [count |-> CountRead(inv[slot_idx]),
                                      label |-> GreaterThanOne(CountRead(inv[slot_idx])).v]]]]

\* the ids of the items of the grid from slot_idx on, in the order of the
\* lookups of line 421, the last one that of the item whose count cannot be
\* compared with 1
RECURSIVE GridIds(_, _, _)
GridIds(inv, slot_idx, slots) ==
    IF slot_idx >= slots THEN <<>>
    ELSE IF slot_idx \notin DOMAIN inv THEN GridIds(inv, slot_idx + 1, slots)
    ELSE IF ~GreaterThanOne(CountRead(inv[slot_idx])).ok THEN <<inv[slot_idx].id>>
    ELSE <<inv[slot_idx].id>> \o GridIds(inv, slot_idx + 1, slots)

\* the ids save_img(data, None) looks up in the atlas: the main icon, which
\* is data.get('id', ...), then the items of the grid
DrawnIdsOf(data) ==
    <<data.id>> \o GridIds(data.inventory, 0, NumRows(data.inventory) * GRID_COLS)

\* data.get('id', 'container').replace(':', '_')
SafeId(id) == [i \in DOMAIN id |-> IF id[i] = ":" THEN "_" ELSE id[i]]

\* f"{safe_id}_{x}_{y}_{z}.png"
FileName(data) == [safe_id |-> SafeId(data.id), pos |-> data.pos]

\* save_img(data): [ok, fname, img]; ok = FALSE is the False it returns
\* after printing "Save Error for ..."
save_img(data, dir) ==
    LET g == generate_backpack_image(data)
    IN  IF g.ok /\ dir
        THEN [ok |-> TRUE, fname |-> FileName(data), img |-> g.img]
        ELSE [ok |-> FALSE, fname |-> FileName(data), img |-> NoImage]

\* the sprites of the atlas map read: none, or that of 'stone'
MainAtlases == {<<>>, <<Stone>>}

\* slots_background.png: not there, an image, or a file that does not open as an image
SlotFiles == {"missing", "image", "broken"}

\* the atlas map with the sprite and the atlas image are there
WholeAtlas(a) == a.atlas_json /\ a.atlas_img /\ a.atlas_map = <<Stone>>

\* what load_resources finds: the atlas map (atlas.json) with its sprites,
\* the atlas image, slots_background.png and container_9_slice.png; the last two vary in the runs
\* that find the whole atlas
AssetSamples ==
    {a \in [atlas_json : BOOLEAN, atlas_img : BOOLEAN, atlas_map : MainAtlases,
            slot : SlotFiles, border : BOOLEAN] :
        /\ ~a.atlas_json => a.atlas_map = <<>>
        /\ ~WholeAtlas(a) => a.slot = "image" /\ a.border}

MainIdle ==
    /\ args = [nodungeon |-> FALSE] /\ raw_containers = <<>> /\ c_pos = 0
    /\ items_to_process = <<>> /\ rendered = {} /\ returning = {} /\ main_pc = "idle"
    /\ assets = [atlas_json |-> TRUE, atlas_img |-> TRUE, atlas_map |-> <<>>,
                 slot |-> "missing", border |-> FALSE]
    /\ ATLAS_IMAGE = FALSE /\ SLOT_IMAGE = "none"
    /\ exit_status = -1
    /\ output_dir = FALSE /\ files = EmptyDict /\ saved = EmptyDict /\ reports = {}

\* ATLAS_IMAGE tells whether the atlas image is loaded; SLOT_IMAGE is "none"
\* for None, "custom" for slots_background.png and "default" for the generated slot
MainInit ==
    /\ args \in [nodungeon : BOOLEAN]
    /\ raw_containers \in Containers(MaxContainers)
    /\ assets \in AssetSamples
    /\ ATLAS_IMAGE = FALSE
    /\ SLOT_IMAGE = "none"
    /\ c_pos = 0
    /\ items_to_process = <<>>
    /\ rendered = {}
    /\ returning = {}
    /\ exit_status = -1
    /\ output_dir = FALSE
    /\ files = EmptyDict
    /\ saved = EmptyDict
    /\ reports = {}
    /\ main_pc = "load"

\* one iteration of `for c in raw_containers`; an exception of
\* normalize_container is caught nowhere and leaves main
NormalizeNext ==
    /\ main_pc = "normalize"
    /\ c_pos < Len(raw_containers)
    /\ LET r == normalize_container(raw_containers[c_pos + 1])
           norm == [r.rec EXCEPT !.inventory = SlotMap(r.rec.inventory, 1, EmptyDict)]
       IN  IF ~r.ok
           THEN /\ main_pc' = "crashed"
                /\ UNCHANGED <<c_pos, items_to_process>>
           ELSE /\ main_pc' = "normalize"
                /\ c_pos' = c_pos + 1
                /\ items_to_process' = IF matches_filter(norm, args)
                                       THEN Append(items_to_process, norm)
                                       ELSE items_to_process
    /\ UNCHANGED <<args, raw_containers, rendered, returning,
                   assets, ATLAS_IMAGE, SLOT_IMAGE, exit_status, output_dir, files, saved,
                   reports,
                   codecVars, locateVars, indexVars, parseVars, renderVars>>

\* count = len(items_to_process); if count == 0: return
CountMatches ==
    /\ main_pc = "normalize"
    /\ c_pos = Len(raw_containers)
    /\ main_pc' = IF Len(items_to_process) = 0 THEN "done" ELSE "render"
    /\ UNCHANGED <<args, raw_containers, c_pos, items_to_process, rendered, returning,
                   assets, ATLAS_IMAGE, SLOT_IMAGE, exit_status, output_dir, files, saved,
                   reports,
                   codecVars, locateVars, indexVars, parseVars, renderVars>>

\* every task has completed: "[Done] Images saved to ..."
RenderDone ==
    /\ main_pc = "render"
    /\ rendered = 1..Len(items_to_process)
    /\ main_pc' = "done"
    /\ UNCHANGED <<args, raw_containers, c_pos, items_to_process, rendered, returning,
                   assets, ATLAS_IMAGE, SLOT_IMAGE, exit_status, output_dir, files, saved,
                   reports,
                   codecVars, locateVars, indexVars, parseVars, renderVars>>

(***************************************************************************)
(* Claims about container mode.                                            *)
(***************************************************************************)
\* a container entry normalize_container cannot process
Malformed(c) == ~normalize_container(c).ok

\* C7: a single malformed container entry does not crash the batch: the run
\* ends normally and every other container that passes the filter is rendered.
C7_MalformedContainerIsolated ==
    /\ main_pc # "crashed"
    /\ main_pc = "done" =>
          \A i \in 1..Len(raw_containers) :
              (~Malformed(raw_containers[i])
                 /\ matches_filter(normalize_container(raw_containers[i]).rec, args)) =>
                  \E t \in rendered : items_to_process[t].pos = raw_containers[i].pos

(***************************************************************************)
(* Claims about rendering in container mode.                               *)
(***************************************************************************)
Tasks == 1..Len(items_to_process)

\* the tasks whose save_img returned True
Saved == {t \in rendered : saved[t]}

\* no other matched record is written to the file of task t
OwnFile(t) ==
    \A u \in Tasks : u # t => FileName(items_to_process[u]) # FileName(items_to_process[t])

\* C11: whatever the maximum slot of a container, its image shows at most 9
\* rows of 9 slots, and no item of slot 81 or above is displayed.
C11_AtMostNineRows ==
    \A f \in DOMAIN files :
        /\ files[f].num_rows <= MaxRows
        /\ \A slot \in DOMAIN files[f].cells : slot < MaxRows * Columns

\* C12: the count the renderer uses for an item of a container, to decide on
\* the label and to print it, is the canonical count: 'count' if present,
\* else 'Count' if present, else 1.
C12_RendererUsesCanonicalCount ==
    \A t \in Saved :
        OwnFile(t) =>
            LET inv == items_to_process[t].inventory
                img == files[FileName(items_to_process[t])]
            IN  \A slot \in DOMAIN img.cells :
                    /\ img.cells[slot].count = inv[slot].Count
                    /\ img.cells[slot].label = GreaterThanOne(inv[slot].Count).v

\* 'uuid': f"{c.get('x')}_{c.get('y')}_{c.get('z')}": the identity of a
\* container, which is its position
ContainerUuid(data) ==
    <<DecChars[data.pos + 1], "_", DecChars[data.pos + 1], "_", DecChars[data.pos + 1]>>

\* C18: save_img never raises: a record whose image cannot be generated is
\* reported under its identity, for a container its position, and gets
\* False, main is left only by an exception of normalize_container, and when
\* main is done every matched record has had its render attempt.
C18_SaveNeverRaises ==
    /\ main_pc = "crashed" =>
          /\ rendered = {}
          /\ c_pos < Len(raw_containers)
          /\ Malformed(raw_containers[c_pos + 1])
    /\ \A t \in rendered :
          /\ t \in DOMAIN saved
          /\ saved[t] = generate_backpack_image(items_to_process[t]).ok
          /\ ~saved[t] => ContainerUuid(items_to_process[t]) \in reports
    /\ main_pc = "done" => rendered = Tasks

\* C19: for a fixed list of matched records the output files and their
\* content are the same for every completion order of the render tasks:
\* each file holds the image of the record it is named after.
C19_OutputIndependentOfOrder ==
    main_pc = "done" =>
        \A t \in Saved :
            files[FileName(items_to_process[t])] =
                generate_backpack_image(items_to_process[t]).img

\* C20: when the atlas map or the atlas image is missing the run ends in
\* load_resources with exit status 1: no container is parsed, the output
\* directory is not made and no file is written.
C20_AbortBeforeProcessing ==
    (~assets.atlas_json \/ ~assets.atlas_img) =>
        /\ main_pc \in {"load", "exited"}
        /\ main_pc = "exited" => exit_status = 1
        /\ c_pos = 0 /\ items_to_process = <<>>
        /\ ~output_dir
        /\ files = EmptyDict /\ rendered = {}

\* the atlas map is there, the atlas image is not, the file holds containers
C20_Witness ==
    /\ main_pc = "exited" /\ exit_status = 1
    /\ assets.atlas_json /\ ~assets.atlas_img
    /\ Len(raw_containers) > 0
    /\ ~output_dir

(***************************************************************************)
(* Quantity labels: data_parser.format_count.  A count is its sign and its *)
(* decimal digits; n, the count divided i times by 1000.0, is the digits   *)
(* with the point 3 * i places from the right.  n is a double: its         *)
(* comparisons with 1000 and 10 and int(n) come out as in exact arithmetic *)
(* for the counts considered, and f"{n:.1f}" rounds the double, which      *)
(* matters when the exact value lies half-way between two tenths.          *)
(***************************************************************************)
MaxDigits == 16     \* digits of the longest count

Suffixes == <<"k", "M", "B", "T">>

CountOf(neg, digits) == [neg |-> neg, digits |-> digits]

\* str(count)
Str(c) ==
    (IF c.neg THEN <<"-">> ELSE <<>>) \o [i \in 1..Len(c.digits) |-> DecChars[c.digits[i] + 1]]

\* count < 10000
LessThan10000(c) == c.neg \/ Len(c.digits) <= 4

\* n < 1000 after i divisions
BelowThousand(ds, i) == Len(ds) <= 3 * i + 3

\* n >= 10 after i divisions
AtLeastTen(ds, i) == Len(ds) - 3 * i >= 2

\* int(n)
IntPart(ds, i) == SubSeq(ds, 1, Len(ds) - 3 * i)

\* the d.f for which the double of d.f5 rounds up to the next tenth: those
\* whose nearest double lies above d.f5, and 1.75, 2.75, ... which are exact
\* and round to the even tenth
TiesUp ==
    {10, 13, 15, 17, 18, 23, 24, 27, 28, 29, 33, 34, 37, 38, 39,
     41, 44, 46, 47, 49, 51, 54, 56, 57, 59, 61, 64, 66, 67, 69,
     71, 74, 76, 77, 79, 80, 81, 85, 86, 87, 90, 91, 95, 96, 97}

\* the digits after the first two are exactly one half of a tenth
HalfWay(ds) == ds[3] = 5 /\ \A j \in 4..Len(ds) : ds[j] = 0

\* f"{n:.1f}" for 1 <= n < 10
OneDecimal(ds) ==
    LET v == ds[1] * 10 + ds[2]
        up == IF HalfWay(ds) THEN v \in TiesUp ELSE ds[3] >= 5
        r == IF up THEN v + 1 ELSE v
    IN  (IF r >= 100 THEN <<"1", "0">> ELSE <<DecChars[(r \div 10) + 1]>>)
          \o <<".", DecChars[(r % 10) + 1]>>

\* (a variant that keeps the '.0')
KeepPointZero(s) == s

\* s.replace('.0', '')
RECURSIVE ReplacePointZero(_)
ReplacePointZero(s) ==
    IF Len(s) < 2 THEN s
    ELSE IF s[1] = "." /\ s[2] = "0" THEN ReplacePointZero(SubSeq(s, 3, Len(s)))
    ELSE <<s[1]>> \o ReplacePointZero(Tail(s))

\* the loop over the suffixes from the i-th
RECURSIVE SuffixLoop(_, _)
SuffixLoop(ds, i) ==
    IF i > Len(Suffixes) THEN <<"I", "N", "F">>
    ELSE IF BelowThousand(ds, i)
         THEN IF AtLeastTen(ds, i)
              THEN [j \in 1..(Len(ds) - 3 * i) |-> DecChars[IntPart(ds, i)[j] + 1]]
                     \o <<Suffixes[i]>>
              ELSE ReplacePointZero(OneDecimal(ds)) \o <<Suffixes[i]>>
         ELSE SuffixLoop(ds, i + 1)

format_count(c) == IF LessThan10000(c) THEN Str(c) ELSE SuffixLoop(c.digits, 1)

\* counts of every length: a few leading digits, then all 0, all 9, or 0...01
Prefixes ==
    {<<1>>, <<9>>, <<1, 5>>, <<9, 9>>, <<1, 2, 5>>, <<1, 7, 5>>, <<1, 0, 5>>,
     <<9, 9, 5>>, <<9, 4, 9>>, <<2, 0, 0>>, <<1, 2, 3>>, <<9, 9, 4>>}

Filled(pre, len, fill, last) ==
    [j \in 1..len |-> IF j <= Len(pre) THEN pre[j] ELSE IF j = len THEN last ELSE fill]

Counts(maxlen) ==
    {CountOf(FALSE, Filled(pre, len, f[1], f[2])) :
        pre \in Prefixes, len \in 1..maxlen, f \in {<<0, 0>>, <<9, 9>>, <<0, 1>>}}
      \cup {CountOf(FALSE, <<0>>), CountOf(TRUE, <<5>>), CountOf(FALSE, <<1, 2, 3, 4, 5, 6, 7>>)}

FormatInit ==
    /\ fc_count \in Counts(MaxDigits)
    /\ fc_result = <<>>
    /\ fc_pc = "call"

\* one call of format_count
Format ==
    /\ fc_pc = "call"
    /\ fc_result' = format_count(fc_count)
    /\ fc_pc' = "done"
    /\ UNCHANGED <<fc_count, atlasVars, fontVars,
                   codecVars, locateVars, indexVars, parseVars, mainVars, otherVars>>

(***************************************************************************)
(* Claims about format_count.                                              *)
(***************************************************************************)
DigitText(ds) == [j \in 1..Len(ds) |-> DecChars[ds[j] + 1]]

\* the first tier i for which count / 1000^i < 1000 (5: none)
Tier(ds) == CHOOSE i \in 1..5 : Len(ds) <= 3 * i + 3 /\ (i > 1 => Len(ds) > 3 * i)

\* the text of v tenths, a trailing '.0' removed
Tenths(v) ==
    DigitText(IF v >= 100 THEN <<1, 0>> ELSE <<v \div 10>>)
      \o (IF v % 10 = 0 THEN <<>> ELSE <<".", DecChars[(v % 10) + 1]>>)

\* the tenths nearest to a value of one leading digit: its first two digits,
\* one more when the rest is above one half, either when it is one half
NearestTenths(ds) ==
    LET v == ds[1] * 10 + ds[2]
    IN  IF HalfWay(ds) THEN {v, v + 1}
        ELSE IF ds[3] >= 5 THEN {v + 1} ELSE {v}

Example(n, out) == fc_count = CountOf(FALSE, n) => fc_result = out

\* C13: for n >= 0, n < 10000 prints n verbatim; otherwise with the first
\* tier of k, M, B, T at which the scaled value is under 1000 it prints the
\* integer part and the suffix when the scaled value is at least 10, and the
\* value to one decimal place, a trailing '.0' removed, when it is under 10;
\* a count that needs a fifth tier prints INF.
C13_FormatCount ==
    (fc_pc = "done" /\ ~fc_count.neg) =>
        LET ds == fc_count.digits
            i == Tier(ds)
        IN  /\ Len(ds) <= 4 => fc_result = DigitText(ds)
            /\ (Len(ds) > 4 /\ i <= 4 /\ Len(ds) - 3 * i >= 2) =>
                  fc_result = DigitText(SubSeq(ds, 1, Len(ds) - 3 * i)) \o <<Suffixes[i]>>
            /\ (Len(ds) > 4 /\ i <= 4 /\ Len(ds) - 3 * i = 1) =>
                  \E v \in NearestTenths(ds) : fc_result = Tenths(v) \o <<Suffixes[i]>>
            /\ (Len(ds) > 4 /\ i = 5) => fc_result = <<"I", "N", "F">>
            /\ Example(<<9, 9, 9, 9>>, <<"9", "9", "9", "9">>)
            /\ Example(<<1, 0, 0, 0, 0>>, <<"1", "0", "k">>)
            /\ Example(<<1, 5, 0, 0, 0>>, <<"1", "5", "k">>)
            /\ Example(<<9, 9, 9, 9, 9, 9>>, <<"9", "9", "9", "k">>)
            /\ Example(<<1, 0, 0, 0, 0, 0, 0>>, <<"1", "M">>)
            /\ Example(<<1, 2, 3, 4, 5, 6, 7>>, <<"1", ".", "2", "M">>)
            /\ Example(<<2, 0, 0, 0, 0, 0, 0>>, <<"2", "M">>)

\* 9 960 000 rounds up to 10.0, printed 10M; 2 000 000 is printed without '.0'
C13_Witness ==
    /\ fc_pc = "done"
    /\ \/ fc_count = CountOf(FALSE, <<9, 9, 5, 0, 0, 0, 1>>) /\ fc_result = <<"1", "0", "M">>
       \/ fc_count = CountOf(FALSE, <<2, 0, 0, 0, 0, 0, 0>>) /\ fc_result = <<"2", "M">>

(***************************************************************************)
(* Bitmap font: image_generator.BitmapFont, measure_text_width and         *)
(* draw_sprite_text.                                                       *)
(*                                                                         *)
(* The font files are: whether font.json and ascii.png exist, whether the  *)
(* json names a bitmap provider, its rows (a row is a string, or a value   *)
(* that cannot be iterated), and the sheet: its size and, for each cell,   *)
(* the rightmost column with a pixel of nonzero alpha (-1: none).          *)
(* chars maps a character to the tight width of its glyph.                 *)
(***************************************************************************)
MaxTextLen == 3     \* characters of a text
MaxRenders == 2     \* calls made on one font

SheetCells == 16            \* cell_w = sheet_w // 16
TEXT_SCALE_MAIN == 6
Gap == 1                    \* gap = 1

RowOf(str) == [str |-> TRUE, cs |-> str]
NotAString == [str |-> FALSE, cs |-> <<>>]

\* _calculate_width(img) of the cell at row r, column c
calculate_width(sheet, r, c) ==
    LET cell_w == sheet.w \div SheetCells
        ink == IF r <= Len(sheet.ink) /\ c <= Len(sheet.ink[r]) THEN sheet.ink[r][c] ELSE -1
    IN  IF ink >= 0 THEN ink + 1 ELSE cell_w \div 3

\* the loop over one row from its c-th character
RECURSIVE LoadRow(_, _, _, _, _)
LoadRow(sheet, cs, r, c, ch) ==
    IF c > Len(cs) THEN ch
    ELSE LoadRow(sheet, cs, r, c + 1, Put(ch, cs[c], calculate_width(sheet, r, c)))

\* the loop over the rows from the r-th: [ok, chars]; a row that cannot be
\* iterated raises, with the glyphs of the rows before it already stored
RECURSIVE LoadRows(_, _, _, _)
LoadRows(sheet, rows, r, ch) ==
    IF r > Len(rows) THEN [ok |-> TRUE, chars |-> ch]
    ELSE IF ~rows[r].str THEN [ok |-> FALSE, chars |-> ch]
    ELSE LoadRows(sheet, rows, r + 1, LoadRow(sheet, rows[r].cs, r, 1, ch))

Max2(a, b) == IF a > b THEN a ELSE b

\* BitmapFont.load(json_path, img_path) on a new BitmapFont:
\* [result, chars, char_height, space_width]
load(f) ==
    LET unloaded == [result |-> FALSE, chars |-> EmptyDict, char_height |-> 8, space_width |-> 4]
        cell_w == f.sheet.w \div SheetCells
        cell_h == f.sheet.h \div SheetCells
        sw == Max2(2, cell_w \div 2)
        l == LoadRows(f.sheet, f.rows, 1, EmptyDict)
    IN  IF ~f.json_exists \/ ~f.img_exists THEN unloaded
        ELSE IF ~f.provider THEN unloaded
        ELSE IF f.rows = <<>> THEN unloaded
        ELSE [result |-> l.ok,
              chars |-> IF l.ok /\ " " \notin DOMAIN l.chars
                        THEN Put(l.chars, " ", sw) ELSE l.chars,
              char_height |-> cell_h,
              space_width |-> sw]

\* self.chars.get(c, self.chars.get('?')): the width of the glyph, -1 for None
Glyph(ch, c) ==
    IF c \in DOMAIN ch THEN ch[c] ELSE IF "?" \in DOMAIN ch THEN ch["?"] ELSE -1

\* text_chars without the None entries
TextChars(ch, txt) ==
    LET all == [i \in 1..Len(txt) |-> Glyph(ch, txt[i])]
    IN  SelectSeq(all, LAMBDA w : w >= 0)

RECURSIVE Sum(_)
Sum(ws) == IF ws = <<>> THEN 0 ELSE Head(ws) + Sum(Tail(ws))

NoCanvas == [none |-> TRUE, w |-> 0, h |-> 0, pastes |-> <<>>]
Nothing == [canvas |-> NoCanvas, w |-> 0, h |-> 0]

\* (int(r * 0.25), int(g * 0.25), int(b * 0.25))
ShadowColor(color) == [i \in 1..3 |-> color[i] \div 4]

\* the pastes of the glyphs from the i-th, the cursor at x_cursor
RECURSIVE Pastes(_, _, _, _, _)
Pastes(ws, i, x_cursor, color, shadow) ==
    IF i > Len(ws) THEN <<>>
    ELSE (IF shadow THEN <<[x |-> x_cursor + 1, y |-> 1, color |-> ShadowColor(color)]>>
          ELSE <<>>)
           \o <<[x |-> x_cursor, y |-> 0, color |-> color]>>
           \o Pastes(ws, i + 1, x_cursor + ws[i] + Gap, color, shadow)

\* (a variant whose width counts the shadow's extra pixel)
RenderShadowWider(ch, height, txt, color, shadow) ==
    LET text_chars == TextChars(ch, txt)
        total_width == Sum(text_chars) + Max2(0, (Len(text_chars) - 1) * Gap)
                         + (IF shadow THEN 1 ELSE 0)
    IN  IF txt = <<>> \/ text_chars = <<>> THEN Nothing
        ELSE [canvas |-> [none |-> FALSE, w |-> total_width + 2, h |-> height + 2,
                          pastes |-> Pastes(text_chars, 1, 0, color, shadow)],
              w |-> total_width, h |-> height]

\* BitmapFont.render(text, color, shadow): [canvas, w, h].  A glyph image is
\* never falsy, so the branch `if not char_img` is never taken.
render(ch, height, txt, color, shadow) ==
    LET text_chars == TextChars(ch, txt)
        total_width == Sum(text_chars) + Max2(0, (Len(text_chars) - 1) * Gap)
    IN  IF txt = <<>> \/ text_chars = <<>> THEN Nothing
        ELSE [canvas |-> [none |-> FALSE, w |-> total_width + 2, h |-> height + 2,
                          pastes |-> Pastes(text_chars, 1, 0, color, shadow)],
              w |-> total_width, h |-> height]

White == <<255, 255, 255>>
Red == <<255, 0, 0>>

\* measure_text_width(text, scale), BITMAP_FONT being the font object
measure_text_width(ch, height, txt, scale) ==
    LET rendered_text == render(ch, height, txt, White, TRUE)
    IN  IF txt = <<>> \/ rendered_text.canvas.none THEN 0 ELSE rendered_text.canvas.w * scale

\* draw_sprite_text(target_img, pos, text, color, scale): (new_w, new_h)
draw_sprite_text(ch, height, txt, color, scale) ==
    LET rendered_text == render(ch, height, txt, color, TRUE)
    IN  IF txt = <<>> \/ rendered_text.canvas.none THEN <<0, 0>>
        ELSE <<rendered_text.canvas.w * scale, rendered_text.canvas.h * scale>>

Sheet8 == [w |-> 128, h |-> 128, ink |-> <<<<4, 2>>, <<6, -1>>>>]
Sheet6 == [w |-> 96, h |-> 64, ink |-> <<<<0, 5>>, <<3, 3>>>>]

RowSamples ==
    {<<>>, <<RowOf(<<"a", "b">>)>>, <<RowOf(<<"a", "?">>)>>,
     <<RowOf(<<"a", "b">>), RowOf(<<"?", " ">>)>>,
     <<RowOf(<<"a", "?">>), RowOf(<<"a", "b">>)>>,
     <<RowOf(<<"a", "b">>), NotAString>>, <<NotAString>>}

FontFiles(json, img, provider, rows, sheet) ==
    [json_exists |-> json, img_exists |-> img, provider |-> provider,
     rows |-> rows, sheet |-> sheet]

FontSamples ==
    {FontFiles(TRUE, TRUE, TRUE, rows, sheet) : rows \in RowSamples, sheet \in {Sheet8, Sheet6}}
      \cup {FontFiles(FALSE, TRUE, TRUE, <<RowOf(<<"a", "b">>)>>, Sheet8),
            FontFiles(TRUE, FALSE, TRUE, <<RowOf(<<"a", "b">>)>>, Sheet8),
            FontFiles(TRUE, TRUE, FALSE, <<RowOf(<<"a", "b">>)>>, Sheet8)}

\* 'z' has no glyph in any of the fonts
Texts(n) == SeqsUpTo({"a", "z"}, n)

FontInit ==
    /\ font_files \in FontSamples
    /\ text \in Texts(MaxTextLen)
    /\ chars = EmptyDict /\ char_height = 8 /\ space_width = 4
    /\ load_result = FALSE
    /\ renders = {}
    /\ font_pc = "load"

\* BITMAP_FONT = BitmapFont(); success = BITMAP_FONT.load(...)
Load ==
    /\ font_pc = "load"
    /\ LET l == load(font_files)
       IN  /\ load_result' = l.result
           /\ chars' = l.chars
           /\ char_height' = l.char_height
           /\ space_width' = l.space_width
    /\ font_pc' = "loaded"
    /\ UNCHANGED <<font_files, text, renders, formatVars, atlasVars,
                   codecVars, locateVars, indexVars, parseVars, mainVars, otherVars>>

\* (a variant that makes the output directory before it looks for the atlas)
LoadResourcesDirFirst ==
    /\ main_pc = "load"
    /\ output_dir' = TRUE
    /\ ATLAS_MAP' = IF assets.atlas_json THEN assets.atlas_map ELSE ATLAS_MAP
    /\ IF ~assets.atlas_json \/ ~assets.atlas_img
       THEN /\ exit_status' = 1
            /\ main_pc' = "exited"
            /\ UNCHANGED <<ATLAS_IMAGE, SLOT_IMAGE, BORDER_IMAGE,
                           chars, char_height, space_width, load_result>>
       ELSE /\ ATLAS_IMAGE' = TRUE
            /\ SLOT_IMAGE' = IF assets.slot = "image" THEN "custom" ELSE "default"
            /\ BORDER_IMAGE' = IF assets.border THEN TRUE ELSE BORDER_IMAGE
            /\ LET l == load(font_files)
               IN  /\ load_result' = l.result
                   /\ chars' = l.chars
                   /\ char_height' = l.char_height
                   /\ space_width' = l.space_width
            /\ main_pc' = "normalize"
            /\ UNCHANGED exit_status
    /\ UNCHANGED <<args, raw_containers, c_pos, items_to_process, rendered, returning,
                   assets, files, saved, reports,
                   codecVars, locateVars, indexVars, parseVars,
                   formatVars, item_id, coords, MISSING_IDS, atlas_pc,
                   font_files, text, renders, font_pc,
                   scanVars, lay_in, lay_out, layout_pc, workerVars, gateVars>>

\* image_generator.load_resources(): sys.exit(1) when the atlas map or the
\* atlas image is missing, the map read being kept in ATLAS_MAP; then the
\* atlas image is opened, the slot background is slots_background.png or, when that is
\* missing or does not open, the generated one, BORDER_IMAGE is container_9_slice.png
\* or stays None, BITMAP_FONT is a new BitmapFont that loads the font files
\* (a failed load only prints), and the output directory is made last
LoadResources ==
    /\ main_pc = "load"
    /\ ATLAS_MAP' = IF assets.atlas_json THEN assets.atlas_map ELSE ATLAS_MAP
    /\ IF ~assets.atlas_json \/ ~assets.atlas_img
       THEN /\ exit_status' = 1
            /\ main_pc' = "exited"
            /\ UNCHANGED <<output_dir, ATLAS_IMAGE, SLOT_IMAGE, BORDER_IMAGE,
                           chars, char_height, space_width, load_result>>
       ELSE /\ ATLAS_IMAGE' = TRUE
            /\ SLOT_IMAGE' = IF assets.slot = "image" THEN "custom" ELSE "default"
            /\ BORDER_IMAGE' = IF assets.border THEN TRUE ELSE BORDER_IMAGE
            /\ LET l == load(font_files)
               IN  /\ load_result' = l.result
                   /\ chars' = l.chars
                   /\ char_height' = l.char_height
                   /\ space_width' = l.space_width
            /\ output_dir' = TRUE
            /\ main_pc' = "normalize"
            /\ UNCHANGED exit_status
    /\ UNCHANGED <<args, raw_containers, c_pos, items_to_process, rendered, returning,
                   assets, files, saved, reports,
                   codecVars, locateVars, indexVars, parseVars,
                   formatVars, item_id, coords, MISSING_IDS, atlas_pc,
                   font_files, text, renders, font_pc,
                   scanVars, lay_in, lay_out, layout_pc, workerVars, gateVars>>

Call(op, color, shadow, out) == [op |-> op, color |-> color, shadow |-> shadow, out |-> out]

\* one call of BITMAP_FONT.render
Render ==
    /\ font_pc = "loaded"
    /\ Cardinality(renders) < MaxRenders
    /\ \E color \in {White, Red}, shadow \in BOOLEAN :
          renders' = renders \cup
              {Call("render", color, shadow, render(chars, char_height, text, color, shadow))}
    /\ UNCHANGED <<font_files, chars, char_height, space_width, load_result, text, font_pc,
                   formatVars, atlasVars,
                   codecVars, locateVars, indexVars, parseVars, mainVars, otherVars>>

\* one call of measure_text_width
Measure ==
    /\ font_pc = "loaded"
    /\ Cardinality(renders) < MaxRenders
    /\ renders' = renders \cup
          {Call("measure", White, TRUE,
                [canvas |-> NoCanvas,
                 w |-> measure_text_width(chars, char_height, text, TEXT_SCALE_MAIN),
                 h |-> 0])}
    /\ UNCHANGED <<font_files, chars, char_height, space_width, load_result, text, font_pc,
                   formatVars, atlasVars,
                   codecVars, locateVars, indexVars, parseVars, mainVars, otherVars>>

\* one call of draw_sprite_text
Draw ==
    /\ font_pc = "loaded"
    /\ Cardinality(renders) < MaxRenders
    /\ LET d == draw_sprite_text(chars, char_height, text, Red, TEXT_SCALE_MAIN)
       IN  renders' = renders \cup
              {Call("draw", Red, TRUE, [canvas |-> NoCanvas, w |-> d[1], h |-> d[2]])}
    /\ UNCHANGED <<font_files, chars, char_height, space_width, load_result, text, font_pc,
                   formatVars, atlasVars,
                   codecVars, locateVars, indexVars, parseVars, mainVars, otherVars>>

(***************************************************************************)
(* Claims about the bitmap font.                                           *)
(***************************************************************************)
RenderCalls == {c \in renders : c.op = "render"}

\* the widths of the characters of the text that have a glyph, own or '?'
GlyphWidths == SelectSeq([i \in 1..Len(text) |-> Glyph(chars, text[i])], LAMBDA w : w >= 0)

\* C14: a character with neither its own glyph nor the '?' glyph still
\* advances the cursor: the total width render reports counts every character
\* of the string, so it is at least the widths of the glyphs plus a 1px gap
\* between each two consecutive characters of the string.
C14_WidthCountsEveryCharacter ==
    \A c \in RenderCalls :
        (load_result /\ text # <<>>) =>
            c.out.w >= Sum(GlyphWidths) + (Len(text) - 1) * Gap

\* C15: for a loaded font and a string, render returns the same total width
\* and height for every colour and for shadow on and off, and the canvas it
\* returns is total width + 2 wide.
C15_WidthStable ==
    /\ \A c \in RenderCalls, d \in RenderCalls :
          c.out.w = d.out.w /\ c.out.h = d.out.h
    /\ \A c \in RenderCalls :
          ~c.out.canvas.none => c.out.canvas.w = c.out.w + 2

\* the same text drawn in white with shadow and in red without: the canvases
\* differ, the sizes do not
C15_Witness ==
    /\ load_result
    /\ \E c \in RenderCalls, d \in RenderCalls :
          /\ c.color = White /\ c.shadow /\ d.color = Red /\ ~d.shadow
          /\ ~c.out.canvas.none /\ c.out.canvas # d.out.canvas
          /\ c.out.w = d.out.w /\ c.out.w > 0
    /\ Len(text) >= 2

\* C16: once load has returned False, every render returns (None, 0, 0),
\* measure_text_width returns 0 and draw_sprite_text returns (0, 0).
C16_LoadFailedIsNoOp ==
    (font_pc = "loaded" /\ ~load_result) =>
        \A c \in renders : c.out = Nothing

(***************************************************************************)
(* Atlas lookup: get_texture_from_atlas of image_generator, which          *)
(* visualizer.py calls, and the one of the standalone backpack_visualizer. *)
(*                                                                         *)
(* ATLAS_MAP is the sequence of the keys of the atlas json in iteration    *)
(* order; the texture of the i-th key is written i, and 0 is None.         *)
(***************************************************************************)
MaxAtlasKeys == 2   \* keys of an atlas

MinecraftNs == SubSeq(ChestId, 1, 10)       \* "minecraft:"
Chest == SubSeq(ChestId, 11, 15)            \* "chest"
Barrel == <<"b", "a", "r", "r", "e", "l">>
Shulker == <<"s", "h", "u", "l", "k", "e", "r">>
ShulkerBox == Shulker \o <<"_", "b", "o", "x">>
MinecraftAir == MinecraftNs \o Air

StartsWith(s, pre) == Len(s) >= Len(pre) /\ SubSeq(s, 1, Len(pre)) = pre
EndsWith(s, suf) == Len(s) >= Len(suf) /\ SubSeq(s, Len(s) - Len(suf) + 1, Len(s)) = suf

\* str.replace(old, ''), old not empty
RECURSIVE Remove(_, _)
Remove(s, old) ==
    IF s = <<>> THEN <<>>
    ELSE IF StartsWith(s, old) THEN Remove(SubSeq(s, Len(old) + 1, Len(s)), old)
    ELSE <<Head(s)>> \o Remove(Tail(s), old)

\* str.replace('"', '').replace("'", "")
RemoveBothQuotes(s) == SelectSeq(s, LAMBDA c : c # "\"" /\ c # "'")

\* str(item_id).replace('"', '').replace("'", "").strip().lower()
CleanId(id) == Lower(Strip(RemoveBothQuotes(id)))

\* ATLAS_MAP.get(key): the texture of the key, 0 for None
Get(map, key) ==
    IF \E i \in 1..Len(map) : map[i] = key
    THEN CHOOSE i \in 1..Len(map) : map[i] = key
    ELSE 0

\* clean_id.split(":")[-1]
RECURSIVE ShortName(_)
ShortName(s) ==
    IF \E i \in 1..Len(s) : s[i] = ":"
    THEN ShortName(SubSeq(s, (CHOOSE i \in 1..Len(s) : s[i] = ":") + 1, Len(s)))
    ELSE s

\* the three steps the two functions share: exact, default namespace added,
\* default namespace removed
NamespaceSteps(map, clean_id) ==
    LET c1 == Get(map, clean_id)
        c2 == IF c1 = 0 /\ ~Contains(clean_id, <<":">>)
              THEN Get(map, MinecraftNs \o clean_id) ELSE c1
    IN  IF c2 = 0 /\ StartsWith(clean_id, MinecraftNs)
        THEN Get(map, Remove(clean_id, MinecraftNs)) ELSE c2

\* the fallbacks for known container types
ContainerSteps(map, clean_id, coords0) ==
    LET c4 == IF coords0 = 0 /\ Contains(clean_id, Chest) THEN Get(map, Chest) ELSE coords0
        c5 == IF c4 = 0 /\ Contains(clean_id, Barrel) THEN Get(map, Barrel) ELSE c4
    IN  IF c5 = 0 /\ Contains(clean_id, Shulker) THEN Get(map, ShulkerBox) ELSE c5

\* for k in ATLAS_MAP: if k == short or k.endswith(f":{short}")
ShortNameStep(map, clean_id, coords0) ==
    LET short == ShortName(clean_id)
        hits == {i \in 1..Len(map) : map[i] = short \/ EndsWith(map[i], <<":">> \o short)}
    IN  IF coords0 = 0 /\ hits # {} THEN CHOOSE i \in hits : \A j \in hits : i <= j
        ELSE coords0

\* MISSING_IDS after a lookup that found nothing
Missing(missing, clean_id) ==
    IF clean_id \notin missing /\ clean_id \notin {Air, MinecraftAir}
    THEN missing \cup {clean_id} ELSE missing

\* image_generator.get_texture_from_atlas(item_id): [coords, missing];
\* clean_id is worked out once, as the value the set ranges over
get_texture_from_atlas(map, missing, id) ==
    LET Texture(clean_id) ==
            LET c == ContainerSteps(map, clean_id, NamespaceSteps(map, clean_id))
            IN  [coords |-> c,
                 missing |-> IF c = 0 THEN Missing(missing, clean_id) ELSE missing]
    IN  CHOOSE t \in {Texture(clean_id) : clean_id \in {CleanId(id)}} : TRUE

\* backpack_visualizer.get_texture_from_atlas(item_id): [coords, missing]
get_texture_from_atlas_standalone(map, missing, id) ==
    LET Texture(clean_id) ==
            LET c == ShortNameStep(map, clean_id, NamespaceSteps(map, clean_id))
            IN  [coords |-> c,
                 missing |-> IF c = 0 THEN Missing(missing, clean_id) ELSE missing]
    IN  CHOOSE t \in {Texture(clean_id) : clean_id \in {CleanId(id)}} : TRUE

\* the lookup of id adds nothing to MISSING_IDS
Settled(id) == get_texture_from_atlas(ATLAS_MAP, MISSING_IDS, id).missing = MISSING_IDS
SettledStandalone(id) ==
    get_texture_from_atlas_standalone(ATLAS_MAP, MISSING_IDS, id).missing = MISSING_IDS

\* MISSING_IDS after image_generator.get_texture_from_atlas has been called
\* with each of ids in turn
RECURSIVE LookupAll(_, _, _)
LookupAll(map, missing, ids) ==
    IF ids = <<>> THEN missing
    ELSE LookupAll(map, get_texture_from_atlas(map, missing, Head(ids)).missing, Tail(ids))

\* the same with backpack_visualizer.get_texture_from_atlas
RECURSIVE LookupAllStandalone(_, _, _)
LookupAllStandalone(map, missing, ids) ==
    IF ids = <<>> THEN missing
    ELSE LookupAllStandalone(map,
             get_texture_from_atlas_standalone(map, missing, Head(ids)).missing, Tail(ids))

OtherStone == <<"o", "t", "h", "e", "r", ":">> \o Stone

AtlasKeys ==
    {Stone, MinecraftNs \o Stone, OtherStone, Chest, ChestId, Barrel, ShulkerBox}

AtlasIds ==
    {Stone, MinecraftNs \o Stone, ModStone, MinecraftNs \o MinecraftNs \o Stone,
     <<" ", "\"", "S">> \o Tail(Stone) \o <<"'">>,
     ChestId, <<"t", "r", "a", "p", "p", "e", "d", "_">> \o Chest, <<"m", "o", "d", ":">> \o Barrel, Shulker \o <<"_", "b", "o", "x">>, <<"r", "e", "d", "_">> \o ShulkerBox,
     Air, MinecraftAir}

\* the key lists without a repeated key
AtlasMaps(n) ==
    {m \in SeqsUpTo(AtlasKeys, n) : \A i, j \in 1..Len(m) : m[i] = m[j] => i = j}

AtlasInit ==
    /\ ATLAS_MAP \in AtlasMaps(MaxAtlasKeys)
    /\ item_id \in AtlasIds
    /\ MISSING_IDS \in {{}, {ModStone}}
    /\ coords = 0
    /\ atlas_pc = "call"

\* one call of image_generator.get_texture_from_atlas
Lookup ==
    /\ atlas_pc = "call"
    /\ LET t == get_texture_from_atlas(ATLAS_MAP, MISSING_IDS, item_id)
       IN  coords' = t.coords /\ MISSING_IDS' = t.missing
    /\ atlas_pc' = "generator"
    /\ UNCHANGED <<ATLAS_MAP, item_id, formatVars, fontVars,
                   codecVars, locateVars, indexVars, parseVars, mainVars, otherVars>>

\* one call of backpack_visualizer.get_texture_from_atlas
LookupStandalone ==
    /\ atlas_pc = "call"
    /\ LET t == get_texture_from_atlas_standalone(ATLAS_MAP, MISSING_IDS, item_id)
       IN  coords' = t.coords /\ MISSING_IDS' = t.missing
    /\ atlas_pc' = "standalone"
    /\ UNCHANGED <<ATLAS_MAP, item_id, formatVars, fontVars,
                   codecVars, locateVars, indexVars, parseVars, mainVars, otherVars>>

(***************************************************************************)
(* Claims about the atlas lookup.                                          *)
(***************************************************************************)
\* the five steps in the order of the claim
FiveSteps(map, id) ==
    LET clean_id == CleanId(id)
    IN  ShortNameStep(map, clean_id,
            ContainerSteps(map, clean_id, NamespaceSteps(map, clean_id)))

\* C17: the lookup resolves an id by the exact normalised id, then with
\* 'minecraft:' prepended when it has no namespace, then with 'minecraft:'
\* removed, then by the chest, barrel and shulker fallbacks, and finally by
\* the first atlas key in iteration order whose short name equals the id's;
\* it returns None only when every one of these steps fails.
C17_LookupOrder ==
    atlas_pc \in {"generator", "standalone"} =>
        coords = FiveSteps(ATLAS_MAP, item_id)

(***************************************************************************)
(* The save_img tasks visualizer.main hands to its thread pool.  The pool  *)
(* has os.cpu_count() + 2 threads, more than the containers of a file      *)
(* here, so every task runs from the start; the calls overlap and share    *)
(* MISSING_IDS and the output directory.  returning holds the tasks that   *)
(* have written their file or printed their error and have not returned.   *)
(* A lookup that leaves MISSING_IDS as it is (the sprite is                *)
(* found, the id is recorded already or is air) changes no state, so the   *)
(* next lookup of a running task is the first of its ids that adds to the  *)
(* set.                                                                    *)
(***************************************************************************)
\* a save_img task running in a thread of the pool makes its next lookup,
\* image_generator.py lines 368 and 421
RenderLookup ==
    /\ main_pc = "render"
    /\ \E t \in 1..Len(items_to_process) :
          /\ t \notin rendered /\ t \notin returning
          /\ LET ids == DrawnIdsOf(items_to_process[t])
             IN  \E k \in 1..Len(ids) :
                    /\ \A j \in 1..(k - 1) : Settled(ids[j])
                    /\ ~Settled(ids[k])
                    /\ MISSING_IDS' =
                          get_texture_from_atlas(ATLAS_MAP, MISSING_IDS, ids[k]).missing
    /\ UNCHANGED <<mainVars, codecVars, locateVars, indexVars, parseVars,
                   formatVars, ATLAS_MAP, item_id, coords, atlas_pc, fontVars, otherVars>>

\* a save_img task, its lookups made and its image generated, writes its
\* file: img.save(os.path.join(OUTPUT_DIR, fname), "PNG"), line 457.  The
\* other threads of the pool run before it returns
RenderWrite ==
    /\ main_pc = "render"
    /\ \E t \in 1..Len(items_to_process) :
          /\ t \notin rendered /\ t \notin returning
          /\ LET ids == DrawnIdsOf(items_to_process[t])
             IN  \A j \in 1..Len(ids) : Settled(ids[j])
          /\ LET r == save_img(items_to_process[t], output_dir)
             IN  /\ r.ok
                 /\ files' = Put(files, r.fname, r.img)
          /\ returning' = returning \cup {t}
    /\ UNCHANGED <<args, raw_containers, c_pos, items_to_process, rendered, main_pc,
                   assets, ATLAS_IMAGE, SLOT_IMAGE, exit_status, output_dir, saved, reports,
                   codecVars, locateVars, indexVars, parseVars, renderVars>>

\* a save_img task whose image cannot be generated or saved prints, line
\* 460, f"\nSave Error for {data.get('backpackUuid') or data.get('id',
\* 'item')}: {e}": a container has no backpackUuid, its id is printed
RenderReport ==
    /\ main_pc = "render"
    /\ \E t \in 1..Len(items_to_process) :
          /\ t \notin rendered /\ t \notin returning
          /\ LET ids == DrawnIdsOf(items_to_process[t])
             IN  \A j \in 1..Len(ids) : Settled(ids[j])
          /\ ~save_img(items_to_process[t], output_dir).ok
          /\ reports' = reports \cup {items_to_process[t].id}
          /\ returning' = returning \cup {t}
    /\ UNCHANGED <<args, raw_containers, c_pos, items_to_process, rendered, main_pc,
                   assets, ATLAS_IMAGE, SLOT_IMAGE, exit_status, output_dir, files, saved,
                   codecVars, locateVars, indexVars, parseVars, renderVars>>

\* a save_img task returns True, line 458, or False, line 461, and its
\* future completes; the tasks complete in any order
RenderOne ==
    /\ main_pc = "render"
    /\ \E t \in returning :
          /\ rendered' = rendered \cup {t}
          /\ returning' = returning \ {t}
          /\ saved' = Put(saved, t, save_img(items_to_process[t], output_dir).ok)
    /\ UNCHANGED <<args, raw_containers, c_pos, items_to_process, main_pc,
                   assets, ATLAS_IMAGE, SLOT_IMAGE, exit_status, output_dir, files, reports,
                   codecVars, locateVars, indexVars, parseVars, renderVars>>

(***************************************************************************)
(* Text scanner: infiltrator.scan_text_snbt_file.                          *)
(*                                                                         *)
(* The file is the sequence of its raw lines.  blocks records every call   *)
(* of the callback on_backpack_block: the text it was given and how the    *)
(* call ended.  The scanner awaits the callback: between the call and its  *)
(* end other tasks of the event loop run, and the scanner is at "callback" *)
(* or "flush".                                                             *)
(***************************************************************************)
MaxLines == 3       \* lines of a text file

BcText == <<"b", "a", "c", "k", "p", "a", "c", "k", "C", "o", "n", "t", "e", "n", "t", "s">>
EmptyKey == <<"\"", "\"", ":">>                  \* '"":'

\* raw_line.rstrip('\n')
RECURSIVE RStripNewline(_)
RStripNewline(s) ==
    IF s # <<>> /\ s[Len(s)] = "\n" THEN RStripNewline(SubSeq(s, 1, Len(s) - 1)) ELSE s

\* line.count(c)
Count(line, c) == Len(SelectSeq(line, LAMBDA x : x = c))

\* line.count('{') - line.count('}')
BraceDelta(line) == Count(line, "{") - Count(line, "}")

\* RE_BACKPACK_CONTENTS_START.search(line) or '"":' in line or
\* 'backpackContents' in line; a line the pattern matches contains
\* 'backpackContents'
StartsBlock(line) == Contains(line, BcText) \/ Contains(line, EmptyKey)

\* "\n".join(buffer_lines)
RECURSIVE Join(_)
Join(ls) ==
    IF ls = <<>> THEN <<>>
    ELSE IF Len(ls) = 1 THEN ls[1]
    ELSE ls[1] \o <<"\n">> \o Join(Tail(ls))

LineSamples ==
    {BcText \o <<":", " ", "[">>, BcText \o <<":", " ", "[", "{">>, EmptyKey \o <<" ", "{">>,
     <<"{">>, <<"}">>, <<"x">>, <<"{", "}">>}

TextFiles(n) == SeqsUpTo({l \o <<"\n">> : l \in LineSamples}, n)

ScanInit ==
    /\ scan_lines \in TextFiles(MaxLines)
    /\ scan_pos = 0
    /\ collecting = FALSE
    /\ brace_level = 0
    /\ buffer_lines = <<>>
    /\ blocks = <<>>
    /\ scan_pc = "scan"

\* what an awaited callback does: it returns, it raises an exception the
\* clause `except Exception` catches, or one it does not (CancelledError,
\* KeyboardInterrupt, SystemExit)
CallbackOutcomes == {"returned", "Exception", "BaseException"}

Awaited(txt) == [text |-> txt, outcome |-> "awaited"]
Settle(bs, outcome) == [bs EXCEPT ![Len(bs)].outcome = outcome]

\* one iteration of `async for raw_line in f`, up to the end of the
\* iteration or to the await of the callback on a closed block
ScanLine ==
    /\ scan_pc = "scan"
    /\ scan_pos < Len(scan_lines)
    /\ scan_pos' = scan_pos + 1
    /\ LET line == RStripNewline(scan_lines[scan_pos + 1])
           buf == Append(buffer_lines, line)
           level == brace_level + BraceDelta(line)
       IN  IF ~collecting
           THEN IF StartsBlock(line)
                THEN /\ collecting' = TRUE
                     /\ buffer_lines' = <<line>>
                     /\ brace_level' = BraceDelta(line)
                     /\ UNCHANGED <<blocks, scan_pc>>
                ELSE UNCHANGED <<collecting, buffer_lines, brace_level, blocks, scan_pc>>
           ELSE /\ buffer_lines' = buf
                /\ brace_level' = level
                /\ UNCHANGED collecting
                /\ IF level <= 0
                   THEN /\ blocks' = Append(blocks, Awaited(Join(buf)))
                        /\ scan_pc' = "callback"
                   ELSE UNCHANGED <<blocks, scan_pc>>
    /\ UNCHANGED <<scan_lines, layoutVars, workerVars, gateVars,
                   codecVars, locateVars, indexVars, parseVars, mainVars,
                   formatVars, atlasVars, fontVars>>

\* the awaited callback of the loop is over: `except Exception: pass`, then
\* the reset of the scanner; an exception the clause does not catch leaves
\* the function
CallbackReturn ==
    /\ scan_pc = "callback"
    /\ \E outcome \in CallbackOutcomes :
          /\ blocks' = Settle(blocks, outcome)
          /\ IF outcome = "BaseException"
             THEN /\ scan_pc' = "raised"
                  /\ UNCHANGED <<collecting, brace_level, buffer_lines>>
             ELSE /\ scan_pc' = "scan"
                  /\ collecting' = FALSE
                  /\ brace_level' = 0
                  /\ buffer_lines' = <<>>
    /\ UNCHANGED <<scan_lines, scan_pos, layoutVars, workerVars, gateVars,
                   codecVars, locateVars, indexVars, parseVars, mainVars,
                   formatVars, atlasVars, fontVars>>

\* the end of the file: `if collecting and buffer_lines: await
\* on_backpack_block(...)`
ScanEnd ==
    /\ scan_pc = "scan"
    /\ scan_pos = Len(scan_lines)
    /\ IF collecting /\ buffer_lines # <<>>
       THEN /\ blocks' = Append(blocks, Awaited(Join(buffer_lines)))
            /\ scan_pc' = "flush"
       ELSE /\ scan_pc' = "done"
            /\ UNCHANGED blocks
    /\ UNCHANGED <<scan_lines, scan_pos, collecting, brace_level, buffer_lines,
                   layoutVars, workerVars, gateVars,
                   codecVars, locateVars, indexVars, parseVars, mainVars,
                   formatVars, atlasVars, fontVars>>

\* the awaited callback of the final flush is over; the await is outside
\* any try, and whatever the callback raises leaves the function
FlushReturn ==
    /\ scan_pc = "flush"
    /\ \E outcome \in CallbackOutcomes :
          /\ blocks' = Settle(blocks, outcome)
          /\ scan_pc' = IF outcome = "returned" THEN "done" ELSE "raised"
    /\ UNCHANGED <<scan_lines, scan_pos, collecting, brace_level, buffer_lines,
                   layoutVars, workerVars, gateVars,
                   codecVars, locateVars, indexVars, parseVars, mainVars,
                   formatVars, atlasVars, fontVars>>

(***************************************************************************)
(* Claims about the text scanner.                                          *)
(***************************************************************************)
\* C30: an exception the block callback raises on a collected block, the
\* final unterminated block flushed at the end of the file included, never
\* leaves the scan, and after every delivered block, when the scan goes on
\* once the callback is over, the scanner is idle: not collecting, brace
\* level 0, empty buffer.
C30_CallbackExceptionSwallowed ==
    [][/\ scan_pc' # "raised"
       /\ (scan_pc = "callback" /\ scan_pc' = "scan") =>
             (~collecting' /\ brace_level' = 0 /\ buffer_lines' = <<>>)]_vars

(***************************************************************************)
(* Worker pool of backpack_visualizer.main: one worker task per matched    *)
(* record, admitted through asyncio.Semaphore(20); inside the gate a       *)
(* worker awaits fetch_skin and then save_img in the thread pool.          *)
(*                                                                         *)
(* The workers are counted by the place they are at: waiting for the       *)
(* gate (in the order the tasks were created), awaiting the fetch,         *)
(* awaiting save_img, finished.  One record, tr, is also followed          *)
(* individually: its position among the tasks, the place it is at, how     *)
(* its fetch ended, the head passed on and the save_img calls made.        *)
(*                                                                         *)
(* The gate is asyncio.Semaphore: sem_value is its _value.  acquire()      *)
(* takes a permit at once when the value is positive and no waiter is      *)
(* there, and queues a future otherwise; release() adds one to the value   *)
(* and, when a future of the queue is not done yet, takes the permit back  *)
(* and sets that future, so that the value stays 0 and the waiter enters   *)
(* when the event loop resumes it.  woken counts the waiters whose future  *)
(* is set and who have not resumed; they are the first of the waiting      *)
(* workers.                                                                *)
(*                                                                         *)
(* save_img runs in a thread of the pool and looks up, one after another,  *)
(* the upgrades and the items of its record; the calls of several records  *)
(* overlap and share MISSING_IDS.  match_ids holds the ids of the followed *)
(* record and the ids each of the other records has.  A lookup that        *)
(* leaves MISSING_IDS as it is (the sprite is found, the id is recorded    *)
(* already or is air) changes no state, so the next lookup of a running    *)
(* call is the first of its ids that adds to the set.                      *)
(***************************************************************************)
MaxRecords == 25    \* matched records of a run

SemaphoreValue == 20     \* asyncio.Semaphore(20)
ConfirmAbove == 24       \* if count > 24: input(...)

\* how a fetch can end: no request for an empty or 'Unknown' name, status
\* 200, another status, the 5 s timeout, any other exception
FetchOutcomes == {"no_name", "ok", "status", "timeout", "exception"}

\* fetch_skin(session, name): the bytes read on status 200, None otherwise
fetch_skin(outcome) == IF outcome = "ok" THEN "bytes" ELSE "none"

Tracked(i) == [index |-> i, at |-> "waiting", outcome |-> "none", head |-> "none", saves |-> 0]

RecordCounts(n) == {0, 1, 2, SemaphoreValue + 1, n}

ModX == <<"m", "o", "d", ":", "x">>

\* records without upgrades and items
NoIds == [tracked |-> <<>>, others |-> <<>>]

\* records of which the followed one holds 'stone' and 'mod:x' and the
\* others 'mod:stone' and 'mod:y'; the records of a run that fills the gate
\* hold nothing
MatchIds(n) ==
    IF n > SemaphoreValue THEN {NoIds}
    ELSE {NoIds,
          [tracked |-> <<Stone, ModX>>, others |-> <<ModStone, <<"m", "o", "d", ":", "y">>>>]}

\* the atlas has the sprite of 'stone', which the short name of 'mod:stone'
\* finds as well
GateAtlas == <<Stone>>

\* no lookup of ids adds to MISSING_IDS any more
LookedUp(ids) == \A j \in 1..Len(ids) : SettledStandalone(ids[j])

GateInit ==
    /\ n_records \in RecordCounts(MaxRecords)
    /\ answer \in BOOLEAN
    /\ sem_value = SemaphoreValue
    /\ waiting = 0 /\ fetching = 0 /\ saving = 0 /\ finished = 0
    /\ woken = 0
    /\ \E i \in {1, SemaphoreValue + 1, n_records} :
          tr = Tracked(IF i <= n_records THEN i ELSE n_records)
    /\ gate_pc = "start"
    /\ match_ids \in MatchIds(n_records)
    /\ ATLAS_MAP = GateAtlas
    /\ MISSING_IDS = {}
    /\ item_id = <<>> /\ coords = 0 /\ atlas_pc = "idle"

\* the futures of the semaphore's queue that are not done: workers queue up
\* only while the value is 0, and a release that finds one leaves it 0
Pending == IF sem_value = 0 THEN waiting - woken ELSE 0

\* main up to the creation of the tasks: return when nothing matched or
\* when the user does not answer 'y' for more than 24 records
CreateTasks ==
    /\ gate_pc = "start"
    /\ IF n_records = 0 \/ (n_records > ConfirmAbove /\ ~answer)
       THEN /\ gate_pc' = "returned"
            /\ UNCHANGED waiting
       ELSE /\ gate_pc' = "run"
            /\ waiting' = n_records
    /\ UNCHANGED <<match_ids, woken, n_records, answer, sem_value, fetching, saving, finished, tr,
                   scanVars, layoutVars, workerVars,
                   codecVars, locateVars, indexVars, parseVars, mainVars,
                   formatVars, atlasVars, fontVars>>

\* (a variant whose gate admits every worker)
AcquireUnbounded ==
    /\ gate_pc = "run"
    /\ waiting > 0
    /\ IF woken > 0
       THEN /\ woken' = woken - 1
            /\ UNCHANGED sem_value
       ELSE /\ sem_value' = sem_value - 1
            /\ UNCHANGED woken
    /\ waiting' = waiting - 1
    /\ fetching' = fetching + 1
    /\ tr' = IF tr.index = n_records - waiting + 1 THEN [tr EXCEPT !.at = "fetching"] ELSE tr
    /\ UNCHANGED <<match_ids, n_records, answer, saving, finished, gate_pc,
                   scanVars, layoutVars, workerVars,
                   codecVars, locateVars, indexVars, parseVars, mainVars,
                   formatVars, atlasVars, fontVars>>

\* `async with sem`: the next waiting worker enters the gate and calls
\* fetch_skin.  A waiter whose future release() has set resumes from
\* `await fut` with the permit it was handed (its `if self._value > 0:
\* self._wake_up_next()` finds no pending waiter then); otherwise acquire()
\* must find the semaphore not locked and takes one from the value
Acquire ==
    /\ gate_pc = "run"
    /\ waiting > 0
    /\ IF woken > 0
       THEN /\ woken' = woken - 1
            /\ UNCHANGED sem_value
       ELSE /\ sem_value > 0
            /\ sem_value' = sem_value - 1
            /\ UNCHANGED woken
    /\ waiting' = waiting - 1
    /\ fetching' = fetching + 1
    /\ tr' = IF tr.index = n_records - waiting + 1 THEN [tr EXCEPT !.at = "fetching"] ELSE tr
    /\ UNCHANGED <<match_ids, n_records, answer, saving, finished, gate_pc,
                   scanVars, layoutVars, workerVars,
                   codecVars, locateVars, indexVars, parseVars, mainVars,
                   formatVars, atlasVars, fontVars>>

\* (a variant of fetch_skin without the try: an exception ends the worker,
\* which leaves the gate without calling save_img)
FetchReturnUncaught ==
    /\ gate_pc = "run"
    /\ \E outcome \in FetchOutcomes, tracked \in BOOLEAN :
          /\ IF tracked THEN tr.at = "fetching"
             ELSE fetching > (IF tr.at = "fetching" THEN 1 ELSE 0)
          /\ fetching' = fetching - 1
          /\ IF outcome \in {"timeout", "exception"}
             THEN /\ finished' = finished + 1
                  /\ IF Pending > 0
                     THEN woken' = woken + 1 /\ UNCHANGED sem_value
                     ELSE sem_value' = sem_value + 1 /\ UNCHANGED woken
                  /\ tr' = IF tracked THEN [tr EXCEPT !.at = "finished", !.outcome = outcome]
                           ELSE tr
                  /\ UNCHANGED saving
             ELSE /\ saving' = saving + 1
                  /\ tr' = IF tracked
                           THEN [tr EXCEPT !.at = "saving", !.outcome = outcome,
                                           !.head = fetch_skin(outcome), !.saves = @ + 1]
                           ELSE tr
                  /\ UNCHANGED <<finished, sem_value, woken>>
    /\ UNCHANGED <<match_ids, n_records, answer, waiting, gate_pc,
                   scanVars, layoutVars, workerVars,
                   codecVars, locateVars, indexVars, parseVars, mainVars,
                   formatVars, atlasVars, fontVars>>

\* fetch_skin returns to a worker, which hands save_img(bp, head) to the
\* thread pool
FetchReturn ==
    /\ gate_pc = "run"
    /\ \E outcome \in FetchOutcomes, tracked \in BOOLEAN :
          /\ IF tracked THEN tr.at = "fetching"
             ELSE fetching > (IF tr.at = "fetching" THEN 1 ELSE 0)
          /\ fetching' = fetching - 1
          /\ saving' = saving + 1
          /\ tr' = IF tracked
                   THEN [tr EXCEPT !.at = "saving", !.outcome = outcome,
                                   !.head = fetch_skin(outcome), !.saves = @ + 1]
                   ELSE tr
    /\ UNCHANGED <<match_ids, woken, n_records, answer, sem_value, waiting, finished, gate_pc,
                   scanVars, layoutVars, workerVars,
                   codecVars, locateVars, indexVars, parseVars, mainVars,
                   formatVars, atlasVars, fontVars>>

\* a save_img call in a thread of the pool makes its next lookup,
\* backpack_visualizer.py lines 388 and 408
SaveLookup ==
    /\ gate_pc = "run"
    /\ \E tracked \in BOOLEAN :
          /\ IF tracked THEN tr.at = "saving"
             ELSE saving > (IF tr.at = "saving" THEN 1 ELSE 0)
          /\ LET ids == IF tracked THEN match_ids.tracked ELSE match_ids.others
             IN  \E k \in 1..Len(ids) :
                    /\ \A j \in 1..(k - 1) : SettledStandalone(ids[j])
                    /\ ~SettledStandalone(ids[k])
                    /\ MISSING_IDS' =
                          get_texture_from_atlas_standalone(ATLAS_MAP, MISSING_IDS, ids[k]).missing
    /\ UNCHANGED <<gateVars, ATLAS_MAP, item_id, coords, atlas_pc,
                   scanVars, layoutVars, workerVars,
                   codecVars, locateVars, indexVars, parseVars, mainVars,
                   formatVars, fontVars>>

\* save_img, its lookups made, returns True or False to a worker, which
\* prints "." and leaves the gate: release() hands the permit to the first
\* pending waiter, or adds it to the value when there is none
SaveReturn ==
    /\ gate_pc = "run"
    /\ \E tracked \in BOOLEAN :
          /\ IF tracked THEN tr.at = "saving"
             ELSE saving > (IF tr.at = "saving" THEN 1 ELSE 0)
          /\ LookedUp(IF tracked THEN match_ids.tracked ELSE match_ids.others)
          /\ tr' = IF tracked THEN [tr EXCEPT !.at = "finished"] ELSE tr
    /\ saving' = saving - 1
    /\ finished' = finished + 1
    /\ IF Pending > 0
       THEN woken' = woken + 1 /\ UNCHANGED sem_value
       ELSE sem_value' = sem_value + 1 /\ UNCHANGED woken
    /\ UNCHANGED <<match_ids, n_records, answer, waiting, fetching, gate_pc,
                   scanVars, layoutVars, workerVars,
                   codecVars, locateVars, indexVars, parseVars, mainVars,
                   formatVars, atlasVars, fontVars>>

\* asyncio.gather returns; print "[Done] ..."
GatherDone ==
    /\ gate_pc = "run"
    /\ finished = n_records
    /\ gate_pc' = "done"
    /\ UNCHANGED <<match_ids, woken, n_records, answer, sem_value, waiting, fetching, saving, finished, tr,
                   scanVars, layoutVars, workerVars,
                   codecVars, locateVars, indexVars, parseVars, mainVars,
                   formatVars, atlasVars, fontVars>>

(***************************************************************************)
(* Claims about the worker pool.                                           *)
(***************************************************************************)
InGate == fetching + saving

\* C25: in every reachable state at most 20 workers are inside the admission
\* gate, so at most 20 avatar fetches are in flight, whatever the number of
\* matched records.
C25_AtMostTwentyInGate ==
    /\ InGate <= SemaphoreValue
    /\ fetching <= SemaphoreValue
    /\ sem_value + woken + InGate = SemaphoreValue

\* the gate is full and a worker waits outside
C25_Witness ==
    /\ n_records > SemaphoreValue
    /\ InGate = SemaphoreValue
    /\ waiting > 0
    /\ fetching > 0

\* at most one save_img call per record, none before the record's fetch has
\* returned, and at the 'Done' step one call made and the gate released
PoolSafety ==
    /\ tr.saves <= 1
    /\ tr.saves = 1 => tr.outcome \in FetchOutcomes
    /\ tr.at \in {"waiting", "fetching"} => tr.saves = 0
    /\ gate_pc = "done" =>
          /\ tr.saves = 1 /\ tr.at = "finished"
          /\ InGate = 0 /\ waiting = 0 /\ woken = 0 /\ sem_value = SemaphoreValue

\* C26 as stated: for any number of matched records and any outcome of each
\* fetch, every worker leaves the gate, each record gets exactly one save_img
\* call after its fetch has returned, and the run reaches its 'Done' step with
\* the gate released.
C26_RunReachesDone ==
    /\ []PoolSafety
    /\ <>(gate_pc = "done" /\ sem_value = SemaphoreValue)

\* C26 amended: once the worker tasks are created, that is for at least one
\* matched record and, for more than 24, after the user's 'y', every worker
\* leaves the gate, each record gets exactly one save_img call after its fetch
\* has returned, and the run reaches its 'Done' step with the gate released.
C26_StartedRunReachesDone ==
    /\ []PoolSafety
    /\ (gate_pc = "run") ~> (gate_pc = "done" /\ sem_value = SemaphoreValue)

\* more than 20 records, the followed one's fetch timed out, 'Done' reached
C26_Witness ==
    /\ gate_pc = "done"
    /\ n_records > SemaphoreValue
    /\ tr.outcome = "timeout" /\ tr.head = "none" /\ tr.saves = 1
    /\ sem_value = SemaphoreValue

(***************************************************************************)
(* Render threads: the save_img calls visualizer.main hands to its thread  *)
(* pool look items up with get_texture_from_atlas and share MISSING_IDS.   *)
(*                                                                         *)
(* A thread is the list of the ids it still has to look up and its place   *)
(* in the lookup at hand.  The interpreter can switch threads between two  *)
(* statements, print releasing the lock while it writes: the test of line  *)
(* 205, the warning of line 206 and the add of line 207 are separate       *)
(* steps; set.add itself is one step.  printed counts the warnings and     *)
(* failed collects the ids whose lookup returned None.                     *)
(***************************************************************************)
MaxThreads == 2     \* threads of the pool that render
MaxLookups == 3     \* lookups of one thread

WarnCap == 5        \* if len(MISSING_IDS) < 5

\* the j-th item that only thread t draws; none of these is in the atlas
OwnId(t, j) == <<"m", DecChars[t + 1], DecChars[j + 1]>>

OwnIds(t, n) == [j \in 1..n |-> OwnId(t, j)]

\* an item several threads draw, missing from the atlas
SharedId == ModStone

Workloads(t, n) ==
    {OwnIds(t, n), <<SharedId>>, <<Air, OwnId(t, 1)>>, <<Stone, SharedId>>}

PoolAtlas == <<Stone>>

WorkerInit ==
    /\ threads \in {f \in [1..MaxThreads -> UNION {Workloads(t, MaxLookups) : t \in 1..MaxThreads}] :
                      \A t \in 1..MaxThreads : f[t] \in Workloads(t, MaxLookups)}
    /\ printed = 0
    /\ failed = {}
    /\ worker_pc = [t \in 1..MaxThreads |-> "lookup"]
    /\ ATLAS_MAP = PoolAtlas
    /\ MISSING_IDS = {}
    /\ item_id = <<>> /\ coords = 0 /\ atlas_pc = "idle"

\* the id thread t is looking up
Current(t) == CleanId(Head(threads[t]))

\* lines 193-205 in thread t: the map is searched; when nothing is found
\* and the id is already recorded or is air, None is returned at once
LookupStart(t) ==
    /\ worker_pc[t] = "lookup"
    /\ threads[t] # <<>>
    /\ LET found == get_texture_from_atlas(ATLAS_MAP, {}, Head(threads[t])).coords # 0
       IN  /\ failed' = IF found THEN failed ELSE failed \cup {Current(t)}
           /\ IF ~found /\ Current(t) \notin MISSING_IDS
                        /\ Current(t) \notin {Air, MinecraftAir}
              THEN /\ worker_pc' = [worker_pc EXCEPT ![t] = "warn"]
                   /\ UNCHANGED threads
              ELSE /\ threads' = [threads EXCEPT ![t] = Tail(@)]
                   /\ UNCHANGED worker_pc
    /\ UNCHANGED <<printed, atlasVars, scanVars, layoutVars, gateVars,
                   codecVars, locateVars, indexVars, parseVars, mainVars,
                   formatVars, fontVars>>

\* line 206 in thread t: if len(MISSING_IDS) < 5: print(...)
Warn(t) ==
    /\ worker_pc[t] = "warn"
    /\ printed' = IF Cardinality(MISSING_IDS) < WarnCap THEN printed + 1 ELSE printed
    /\ worker_pc' = [worker_pc EXCEPT ![t] = "add"]
    /\ UNCHANGED <<threads, failed, atlasVars, scanVars, layoutVars, gateVars,
                   codecVars, locateVars, indexVars, parseVars, mainVars,
                   formatVars, fontVars>>

\* (a variant that keeps the set itself at the cap)
AddMissingCapped(t) ==
    /\ worker_pc[t] = "add"
    /\ MISSING_IDS' = IF Cardinality(MISSING_IDS) < WarnCap
                      THEN MISSING_IDS \cup {Current(t)} ELSE MISSING_IDS
    /\ threads' = [threads EXCEPT ![t] = Tail(@)]
    /\ worker_pc' = [worker_pc EXCEPT ![t] = "lookup"]
    /\ UNCHANGED <<printed, failed, ATLAS_MAP, item_id, coords, atlas_pc,
                   scanVars, layoutVars, gateVars,
                   codecVars, locateVars, indexVars, parseVars, mainVars,
                   formatVars, fontVars>>

\* lines 207-208 in thread t: MISSING_IDS.add(clean_id); return None
AddMissing(t) ==
    /\ worker_pc[t] = "add"
    /\ MISSING_IDS' = MISSING_IDS \cup {Current(t)}
    /\ threads' = [threads EXCEPT ![t] = Tail(@)]
    /\ worker_pc' = [worker_pc EXCEPT ![t] = "lookup"]
    /\ UNCHANGED <<printed, failed, ATLAS_MAP, item_id, coords, atlas_pc,
                   scanVars, layoutVars, gateVars,
                   codecVars, locateVars, indexVars, parseVars, mainVars,
                   formatVars, fontVars>>

Looking == \E t \in 1..MaxThreads : LookupStart(t)
Warning == \E t \in 1..MaxThreads : Warn(t)
Adding == \E t \in 1..MaxThreads : AddMissing(t)

(***************************************************************************)
(* Claims about the shared missing-id set.                                 *)
(***************************************************************************)
AllFinished == \A t \in 1..MaxThreads : threads[t] = <<>>

\* C23: no update to the shared missing-id set is lost: under every
\* interleaving of the render threads, once all of them have finished, every
\* id other than air whose lookup failed in any thread is in the set.
C23_NoLostUpdate ==
    AllFinished => failed \ {Air, MinecraftAir} \subseteq MISSING_IDS

\* all threads have finished and more ids than the cap have failed, every
\* one recorded
C23_Witness ==
    /\ AllFinished
    /\ Cardinality(failed) > WarnCap
    /\ failed \ {Air, MinecraftAir} = MISSING_IDS

\* C24: the number of missing-id warnings printed during a run never exceeds
\* the cap of 5, under every interleaving of the render threads.
C24_WarningsCapped == printed <= WarnCap

(***************************************************************************)
(* Header and label layout of generate_backpack_image, in                  *)
(* image_generator and in the standalone backpack_visualizer.              *)
(*                                                                         *)
(* The record drawn is a backpack or a container, given by the length of   *)
(* the name on its first line (the owner, the container id), the width of  *)
(* the glyphs of the font (one width for every character), the number of   *)
(* its upgrades and the number of digits of the count of the item in its   *)
(* slot 0, 9...9.  BORDER_IMAGE tells whether the border asset is loaded.  *)
(* The layout is the collision flag, the header height, the y of the       *)
(* upgrade row and the x of every upgrade slot on the canvas, the scale    *)
(* and width of the label, and, of the image returned, its size, the       *)
(* place of the canvas in it and the place of every upgrade slot.          *)
(***************************************************************************)
MaxNameLen == 18    \* characters of an owner name
MaxUpgrades == 8    \* upgrades of a backpack
MaxCountDigits == 4 \* digits of the count of an item

SLOT_SIZE == 128
DEFAULT_HEADER_HEIGHT == 240
PADDING == 24
TEXT_SCALE_COUNT == 5
TEXT_SCALE_LABEL == 6
HeadSize == 128                 \* head_size = 128
LineH == 65                     \* line_h = 65
SlotStep == SLOT_SIZE + 10      \* SLOT_SIZE + 10
LabelMargin == 8                \* max_w = SLOT_SIZE - 8
SrcCorner == 5                  \* src_corner = 5

\* dest_corner = int(src_corner * UI_SCALE), UI_SCALE = SLOT_SIZE / 18.0
DestCorner == (SrcCorner * SLOT_SIZE) \div 18

Repeat(c, n) == [i \in 1..n |-> c]

Backpack(name_len, glyph_w, upg_count, count_digits) ==
    [type |-> "backpack", name_len |-> name_len, glyph_w |-> glyph_w,
     upg_count |-> upg_count, count_digits |-> count_digits]

\* a container at 0, 0, 0 of the dimension 'a', not of a dungeon
ContainerRecord(name_len, glyph_w, upg_count, count_digits) ==
    [Backpack(name_len, glyph_w, upg_count, count_digits) EXCEPT !.type = "container"]

\* text_lines: of a container its type, position, dimension and dungeon
\* flag; of a backpack f"Owner: {owner}", f"Last: {access}" of a backpack
\* never opened, f"UUID: {uuid[:8]}..."
TextLines(b) ==
    IF b.type = "container"
    THEN <<<<"T", "y", "p", "e", ":", " ">> \o Repeat("a", b.name_len), <<"P", "o", "s", ":", " ", "0", ",", " ", "0", ",", " ", "0">>, <<"D", "i", "m", ":", " ", "a">>, <<"D", "u", "n", "g", "e", "o", "n", ":", " ", "N", "o">>>>
    ELSE <<<<"O", "w", "n", "e", "r", ":", " ">> \o Repeat("a", b.name_len), <<"L", "a", "s", "t", ":", " ", "N", "e", "v", "e", "r">>, <<"U", "U", "I", "D", ":", " ", "0", "0", "0", "0", "0", "0", "0", "0", ".", ".", ".">>>>

\* the loaded font: every character of the lines and labels has a glyph
\* of the same width
FontOf(b) ==
    [c \in {" ", ":", ".", ",", "0", "9", "a", "B", "D", "k", "L", "M", "N", "O", "P",
            "T", "U", "e", "g", "i", "m", "n", "o", "p", "r", "s", "t", "u", "v", "w",
            "y"} |-> b.glyph_w]

\* max_text_width: the widest measure_text_width(line, TEXT_SCALE_MAIN)
MaxTextWidth(b) ==
    LET ws == {measure_text_width(FontOf(b), 8, TextLines(b)[i], TEXT_SCALE_MAIN) :
                 i \in 1..Len(TextLines(b))}
    IN  CHOOSE m \in ws : \A x \in ws : x <= m

ImgWidth == (GRID_COLS * SLOT_SIZE) + (PADDING * 2)
TextStartX == PADDING + HeadSize + 32
TextYBase == PADDING + 10

\* img_height of a record whose only item is in slot 0: one row of slots
ImgHeight(header_height) == header_height + SLOT_SIZE + (PADDING * 2)

\* upg_default_start_x
UpgDefaultStartX(n) == ImgWidth - PADDING - ((n * SLOT_SIZE) + (Max2(0, n - 1) * 10))

NoLayout == [impl |-> "none", collision |-> FALSE, header_height |-> 0, upg_y |-> 0,
             xs |-> <<>>, scale |-> 0, text_w |-> 0,
             size |-> <<0, 0>>, origin |-> 0, slots |-> <<>>]

\* c_str = format_count(count) of the count 9...9
Label(b) == format_count(CountOf(FALSE, Repeat(9, b.count_digits)))

\* the upgrade slots of the image returned, the canvas being at (origin, origin)
SlotsOf(xs, upg_y, origin) == [k \in 1..Len(xs) |-> <<xs[k] + origin, upg_y + origin>>]

\* image_generator.generate_backpack_image before its return: header
\* layout, lines 293-349 and 393-399, canvas, line 357, and label, lines
\* 429-437
Header(b) ==
    LET is_container == b.type = "container"
        n == IF is_container THEN 0 ELSE b.upg_count
        text_end_x == TextStartX + MaxTextWidth(b)
        text_block_bottom == TextYBase + (Len(TextLines(b)) * LineH)
        header0 == Max2(DEFAULT_HEADER_HEIGHT, text_block_bottom + PADDING)
        collision == n > 0 /\ text_end_x + 20 > UpgDefaultStartX(n)
        upg_y == IF collision THEN text_block_bottom + (8 * TEXT_SCALE_LABEL) + 20
                 ELSE PADDING + 60
        header_height == IF collision THEN Max2(header0, upg_y + SLOT_SIZE + 20) ELSE header0
        xs == [k \in 1..n |-> IF collision THEN TextStartX + ((k - 1) * SlotStep)
                              ELSE (ImgWidth - PADDING - SLOT_SIZE) - ((k - 1) * SlotStep)]
    IN  [impl |-> "image_generator",
         collision |-> collision,
         header_height |-> header_height,
         upg_y |-> upg_y,
         xs |-> xs,
         scale |-> TEXT_SCALE_COUNT,
         text_w |-> measure_text_width(FontOf(b), 8, Label(b), TEXT_SCALE_COUNT),
         size |-> <<ImgWidth, ImgHeight(header_height)>>,
         origin |-> 0,
         slots |-> SlotsOf(xs, upg_y, 0)]

\* image_generator.apply_9_slice(content_img): without the border asset the
\* canvas itself, with it a new image, larger by dest_corner on every side,
\* with the canvas pasted at (dest_corner, dest_corner)
apply_9_slice(l, border) ==
    IF ~border THEN l
    ELSE [l EXCEPT !.size = <<l.size[1] + (DestCorner * 2), l.size[2] + (DestCorner * 2)>>,
                   !.origin = DestCorner,
                   !.slots = SlotsOf(l.xs, l.upg_y, DestCorner)]

\* for s in range(TEXT_SCALE_COUNT, 0, -1): the scale the loop ends with
RECURSIVE FitScale(_, _)
FitScale(b, sc) ==
    IF sc = 1 \/ measure_text_width(FontOf(b), 8, Label(b), sc) <= SLOT_SIZE - LabelMargin
    THEN sc ELSE FitScale(b, sc - 1)

\* backpack_visualizer.generate_backpack_image: header layout, lines
\* 289-339 and 384-387, canvas, lines 342-349, and label, lines 417-437
HeaderStandalone(b) ==
    LET n == b.upg_count
        text_end_x == TextStartX + MaxTextWidth(b)
        collision == text_end_x + 20 > UpgDefaultStartX(n)
        moved == collision /\ n > 0
        text_block_bottom == TextYBase + (2 * LineH) + (8 * TEXT_SCALE_MAIN)
        upg_y == IF moved THEN text_block_bottom + 90 ELSE PADDING + 60
        upg_start_x == IF moved THEN TextStartX + ((n - 1) * SlotStep)
                       ELSE ImgWidth - PADDING - SLOT_SIZE
        header_height == IF moved THEN upg_y + SLOT_SIZE + 20 ELSE DEFAULT_HEADER_HEIGHT
        xs == [k \in 1..n |-> upg_start_x - ((k - 1) * SlotStep)]
        final_scale == FitScale(b, TEXT_SCALE_COUNT)
    IN  [impl |-> "backpack_visualizer",
         collision |-> collision,
         header_height |-> header_height,
         upg_y |-> upg_y,
         xs |-> xs,
         scale |-> final_scale,
         text_w |-> measure_text_width(FontOf(b), 8, Label(b), final_scale),
         size |-> <<ImgWidth, ImgHeight(header_height)>>,
         origin |-> 0,
         slots |-> SlotsOf(xs, upg_y, 0)]

FontWidths == {1, 5, 31}

\* the record's upgrades are 'u0', 'u1', ... and its one item, in slot 0, is
\* 'stone'
UpgradeIds(b) == [k \in 1..b.upg_count |-> <<"u", DecChars[k]>>]
ItemIds(b) == <<Stone>>

\* the ids image_generator.generate_backpack_image(data) looks up, in the
\* order of its calls: no main icon (main_icon_id is None), the upgrades of
\* a backpack, then the items of the grid
DrawnIds(b) == (IF b.type = "container" THEN <<>> ELSE UpgradeIds(b)) \o ItemIds(b)

\* the same for backpack_visualizer.generate_backpack_image
DrawnIdsStandalone(b) == UpgradeIds(b) \o ItemIds(b)

\* an atlas without a sprite and one with the sprites of the item and of
\* the first upgrade
LayoutAtlases == {<<>>, <<Stone, <<"u", "0">>>>}

LayoutInit ==
    /\ lay_in \in {Backpack(l, w, n, c) : l \in 0..MaxNameLen, w \in FontWidths,
                                          n \in 0..MaxUpgrades, c \in 1..MaxCountDigits}
               \cup {ContainerRecord(l, w, n, c) : l \in {0, MaxNameLen}, w \in FontWidths,
                                             n \in {0, MaxUpgrades}, c \in 1..MaxCountDigits}
    /\ BORDER_IMAGE \in BOOLEAN
    /\ lay_out = NoLayout
    /\ layout_pc = "call"
    /\ ATLAS_MAP \in LayoutAtlases
    /\ MISSING_IDS = {}
    /\ item_id = <<>> /\ coords = 0 /\ atlas_pc = "idle"

\* image_generator.generate_backpack_image(data): the layout, the lookups
\* of the icons it draws, which record the ids the atlas lacks, then
\* `return apply_9_slice(img)`
Generate ==
    /\ layout_pc = "call"
    /\ lay_out' = apply_9_slice(Header(lay_in), BORDER_IMAGE)
    /\ layout_pc' = "drawn"
    /\ MISSING_IDS' = LookupAll(ATLAS_MAP, MISSING_IDS, DrawnIds(lay_in))
    /\ UNCHANGED <<lay_in, BORDER_IMAGE, scanVars, workerVars, gateVars,
                   codecVars, locateVars, indexVars, parseVars, mainVars,
                   formatVars, ATLAS_MAP, item_id, coords, atlas_pc, fontVars>>

\* backpack_visualizer.generate_backpack_image(data, head_bytes), which
\* looks the icons up as well and returns the canvas; the records of
\* backpack_visualizer are backpacks
GenerateStandalone ==
    /\ layout_pc = "call"
    /\ lay_in.type = "backpack"
    /\ lay_out' = HeaderStandalone(lay_in)
    /\ layout_pc' = "drawn"
    /\ MISSING_IDS' = LookupAllStandalone(ATLAS_MAP, MISSING_IDS, DrawnIdsStandalone(lay_in))
    /\ UNCHANGED <<lay_in, BORDER_IMAGE, scanVars, workerVars, gateVars,
                   codecVars, locateVars, indexVars, parseVars, mainVars,
                   formatVars, ATLAS_MAP, item_id, coords, atlas_pc, fontVars>>

(***************************************************************************)
(* Claims about the layout.                                                *)
(***************************************************************************)
Drawn == layout_pc = "drawn" /\ lay_in.type = "backpack" /\ lay_in.upg_count >= 1

\* W + textStartX + 20 > U
Collides == MaxTextWidth(lay_in) + 184 + 20 > UpgDefaultStartX(lay_in.upg_count)

\* the row drawn in the default place, top right, growing leftwards
TopRight ==
    /\ ~lay_out.collision
    /\ lay_out.upg_y < TextYBase + LineH
    /\ \A k \in 1..lay_in.upg_count :
          lay_out.xs[k] = ImgWidth - PADDING - 128 - (k - 1) * 138

\* the row drawn below the text block, from textStartX on, inside the header
Below ==
    /\ lay_out.collision
    /\ lay_out.upg_y >= TextYBase + 2 * LineH + 8 * TEXT_SCALE_MAIN
    /\ lay_out.header_height >= lay_out.upg_y + SLOT_SIZE
    /\ {lay_out.xs[k] : k \in 1..lay_in.upg_count}
          = {184 + i * 138 : i \in 0..(lay_in.upg_count - 1)}

\* C21 as stated: exactly when W + textStartX + 20 > U the upgrade row is
\* drawn below the text block, the i-th slot at textStartX + i*138 and the
\* header grown to contain it; otherwise, the boundary included, it is drawn
\* top right, the i-th slot at imgWidth - padding - 128 - i*138.
C21_UpgradeRowPlacement ==
    Drawn =>
        IF Collides
        THEN Below /\ \A k \in 1..lay_in.upg_count : lay_out.xs[k] = 184 + (k - 1) * 138
        ELSE TopRight

\* C22: the scale of a quantity label is the largest scale, tried from 5
\* down to 1, at which the measured label fits in the slot width minus the
\* margin, 1 if none fits: a label that fits at some scale is not drawn wider.
C22_LabelScaleFits ==
    layout_pc = "drawn" =>
        LET fits(sc) == measure_text_width(FontOf(lay_in), 8, Label(lay_in), sc)
                          <= SLOT_SIZE - LabelMargin
        IN  /\ lay_out.scale \in 1..TEXT_SCALE_COUNT
            /\ \A sc \in 1..TEXT_SCALE_COUNT : fits(sc) => lay_out.scale >= sc /\ fits(lay_out.scale)
            /\ (\A sc \in 1..TEXT_SCALE_COUNT : ~fits(sc)) => lay_out.scale = 1
            /\ (\E sc \in 1..TEXT_SCALE_COUNT : fits(sc)) =>
                  lay_out.text_w <= SLOT_SIZE - LabelMargin

\* C27: every upgrade slot the layout pastes lies inside the canvas
\* horizontally, 0 <= x and x + 128 <= 1200, for any number of upgrades and
\* any header text width, in both branches.
C27_UpgradeSlotsInsideCanvas ==
    layout_pc = "drawn" =>
        \A k \in 1..Len(lay_out.xs) : 0 <= lay_out.xs[k] /\ lay_out.xs[k] + 128 <= 1200

FormatIdle == fc_count = [neg |-> FALSE, digits |-> <<0>>] /\ fc_result = <<>> /\ fc_pc = "idle"
AtlasIdle ==
    /\ ATLAS_MAP = <<>> /\ item_id = <<>> /\ coords = 0 /\ MISSING_IDS = {}
    /\ atlas_pc = "idle"
FontIdle ==
    /\ font_files = FontFiles(FALSE, FALSE, FALSE, <<>>, Sheet8) /\ chars = EmptyDict /\ char_height = 8 /\ space_width = 4
    /\ load_result = FALSE /\ text = <<>> /\ renders = {} /\ font_pc = "idle"
ScanIdle ==
    /\ scan_lines = <<>> /\ scan_pos = 0 /\ collecting = FALSE /\ brace_level = 0
    /\ buffer_lines = <<>> /\ blocks = <<>> /\ scan_pc = "idle"
LayoutIdle ==
    /\ lay_in = Backpack(0, 1, 0, 1) /\ lay_out = NoLayout /\ layout_pc = "idle"
    /\ BORDER_IMAGE = FALSE
WorkerIdle == threads = <<>> /\ printed = 0 /\ failed = {} /\ worker_pc = "idle"
GateIdle ==
    /\ n_records = 0 /\ answer = FALSE /\ sem_value = SemaphoreValue
    /\ waiting = 0 /\ fetching = 0 /\ saving = 0 /\ finished = 0
    /\ woken = 0
    /\ tr = Tracked(0) /\ gate_pc = "idle"
    /\ match_ids = NoIds
OtherIdle == ScanIdle /\ LayoutIdle /\ WorkerIdle /\ GateIdle
RenderIdle == FormatIdle /\ AtlasIdle /\ FontIdle /\ OtherIdle
IndexIdle == access_log = <<>> /\ idx = EmptyDict /\ log_pos = 0 /\ index_pc = "idle"
ParseIdle ==
    /\ contents_list = <<>> /\ owner_log = <<>> /\ bc_pos = 0
    /\ yielded = <<>> /\ parse_pc = "idle"

(***************************************************************************)
(* Specifications: one per component, the other components at rest.        *)
(***************************************************************************)
CodecNext == Encode
CodecStart == CodecInit /\ LocateIdle /\ IndexIdle /\ ParseIdle /\ MainIdle /\ RenderIdle
SpecCodec == CodecStart /\ [][CodecNext]_vars

IndexNext == IndexEntry \/ IndexReturn
IndexStart == IndexInit /\ CodecIdle /\ LocateIdle /\ ParseIdle /\ MainIdle /\ RenderIdle
SpecIndex == IndexStart /\ [][IndexNext]_vars

ParseNext == ParseEntry \/ ParseReturn
ParseStart == ParseInit /\ CodecIdle /\ LocateIdle /\ IndexIdle /\ MainIdle /\ RenderIdle
SpecParse == ParseStart /\ [][ParseNext]_vars

MainNext ==
    \/ LoadResources \/ NormalizeNext \/ CountMatches
    \/ RenderLookup \/ RenderWrite \/ RenderReport \/ RenderOne \/ RenderDone
\* the font files load_resources finds: a font of two glyphs and, in a run
\* that finds all the images, no font description or a description whose
\* second row is not a string
TwoGlyphs == FontFiles(TRUE, TRUE, TRUE, <<RowOf(<<"a", "b">>)>>, Sheet8)
MainFonts ==
    {TwoGlyphs,
     FontFiles(FALSE, TRUE, TRUE, <<RowOf(<<"a", "b">>)>>, Sheet8),
     FontFiles(TRUE, TRUE, TRUE, <<RowOf(<<"a", "b">>), NotAString>>, Sheet6)}
MainFont ==
    /\ font_files \in MainFonts
    /\ font_files # TwoGlyphs => WholeAtlas(assets) /\ assets.slot = "image" /\ assets.border
    /\ chars = EmptyDict /\ char_height = 8 /\ space_width = 4
    /\ load_result = FALSE /\ text = <<>> /\ renders = {} /\ font_pc = "idle"
\* the slot, border and font files vary in the runs on one container
MainStart ==
    /\ MainInit /\ MainFont /\ FormatIdle /\ AtlasIdle /\ OtherIdle
    /\ Len(raw_containers) > 1 =>
          assets.slot = "image" /\ assets.border /\ font_files = TwoGlyphs
    /\ CodecIdle /\ LocateIdle /\ IndexIdle /\ ParseIdle
SpecMain == MainStart /\ [][MainNext]_vars

FormatNext == Format
FormatStart ==
    /\ FormatInit /\ AtlasIdle /\ FontIdle /\ OtherIdle
    /\ CodecIdle /\ LocateIdle /\ IndexIdle /\ ParseIdle /\ MainIdle
SpecFormat == FormatStart /\ [][FormatNext]_vars

FontNext == Load \/ Render \/ Measure \/ Draw
FontStart ==
    /\ FontInit /\ FormatIdle /\ AtlasIdle /\ OtherIdle
    /\ CodecIdle /\ LocateIdle /\ IndexIdle /\ ParseIdle /\ MainIdle
SpecFont == FontStart /\ [][FontNext]_vars

AtlasNext == Lookup \/ LookupStandalone
AtlasStart ==
    /\ AtlasInit /\ FormatIdle /\ FontIdle /\ OtherIdle
    /\ CodecIdle /\ LocateIdle /\ IndexIdle /\ ParseIdle /\ MainIdle
SpecAtlas == AtlasStart /\ [][AtlasNext]_vars

ScanNext == ScanLine \/ CallbackReturn \/ ScanEnd \/ FlushReturn
ScanStart ==
    /\ ScanInit /\ LayoutIdle /\ WorkerIdle /\ GateIdle
    /\ FormatIdle /\ AtlasIdle /\ FontIdle
    /\ CodecIdle /\ LocateIdle /\ IndexIdle /\ ParseIdle /\ MainIdle
SpecScan == ScanStart /\ [][ScanNext]_vars

GateNext == CreateTasks \/ Acquire \/ FetchReturn \/ SaveLookup \/ SaveReturn \/ GatherDone
GateStart ==
    /\ GateInit /\ ScanIdle /\ LayoutIdle /\ WorkerIdle
    /\ FormatIdle /\ FontIdle
    /\ CodecIdle /\ LocateIdle /\ IndexIdle /\ ParseIdle /\ MainIdle
SpecGate == GateStart /\ [][GateNext]_vars
\* the event loop runs every ready task, a fetch returns within its timeout
\* and a save_img call goes on in its thread and returns
SpecGateFair ==
    /\ SpecGate
    /\ WF_vars(CreateTasks) /\ WF_vars(Acquire) /\ WF_vars(FetchReturn)
    /\ WF_vars(SaveLookup) /\ WF_vars(SaveReturn) /\ WF_vars(GatherDone)

WorkerNext == Looking \/ Warning \/ Adding
WorkerStart ==
    /\ WorkerInit /\ ScanIdle /\ LayoutIdle /\ GateIdle
    /\ FormatIdle /\ FontIdle
    /\ CodecIdle /\ LocateIdle /\ IndexIdle /\ ParseIdle /\ MainIdle
SpecWorker == WorkerStart /\ [][WorkerNext]_vars

LayoutNext == Generate \/ GenerateStandalone
LayoutStart ==
    /\ LayoutInit /\ ScanIdle /\ WorkerIdle /\ GateIdle
    /\ FormatIdle /\ FontIdle
    /\ CodecIdle /\ LocateIdle /\ IndexIdle /\ ParseIdle /\ MainIdle
SpecLayout == LayoutStart /\ [][LayoutNext]_vars

LocateNext == SearchLayer \/ ReportNotFound \/ UsePayload
LocateStart == LocateInit /\ CodecIdle /\ IndexIdle /\ ParseIdle /\ MainIdle /\ RenderIdle
SpecLocate == LocateStart /\ [][LocateNext]_vars

=============================================================================
